---- MODULE Spec2Model ----
(***************************************************************************)
(* A state-machine model of the Dota 2 data tooling of this repository.    *)
(*                                                                         *)
(* Part 1: the wiki crawl client of scripts/wikisraper.py: RateLimiter,    *)
(*         LiquidpediaClient._request_with_rate_limit, the response cache, *)
(*         _get and get_all_pages.                                         *)
(* Part 2: the single-page scrapers and their scrape_with_cache            *)
(*         (scripts/attributes.py, scripts/basedata.py,                    *)
(*         scripts/hero_main.py), and scripts/steamrev.py.                 *)
(* Parts 3 to 13: scrape_all_hero_details, scrape_heroes_portal,           *)
(*         resolve_optimal_build, calculate_patch_impact, the Neo4j        *)
(*         import, the Lisp environment, the import of sql_chain.py, the   *)
(*         graph export and decode_tower_status of scripts/transform.py,   *)
(*         validate_type_compatibility, and the data acquisition stage of  *)
(*         test-cases/query.py.  Each part has its own variables and its   *)
(*         own specification; the variables of the other parts stay as    *)
(*         they are.                                                       *)
(*                                                                         *)
(* Delays are Python floats in the source.  They are modelled as exact     *)
(* rationals <<numerator, denominator>> in lowest terms, so that the       *)
(* factors 1.5 and 0.9 and the clamps min/max are computed, not assumed.   *)
(* Clock readings (time.time(), st_mtime) are modelled as integers.        *)
(***************************************************************************)
EXTENDS Integers, Sequences, FiniteSets, TLC

VARIABLES
    \* ---- RateLimiter (wikisraper.py:82-135)
    base_rate,          \* self.base_rate
    max_rate,           \* self.max_rate
    current_rate,       \* self.current_rate
    error_count,        \* self.error_count
    rl_lock,            \* self._lock: 0 when free, else the holding thread
    consecutive_errors, \* history: error() calls since construction or the last success()
    last_rl_call,       \* history: the last success() or error() call, and the rate and
                        \* counter it found
    \* ---- LiquidpediaClient._request_with_rate_limit (wikisraper.py:260-270)
    rate_limit_lock,    \* self._rate_limit_lock: 0 when free, else the holding thread
    pc,                 \* per thread: where it is
    waited,             \* per thread: rate_limiter.wait() done inside the critical section
    req_kind,           \* per thread: "api" or "web", the request being made
    response,           \* per thread: "returned" or "raised", what session.request did
    budget,             \* session.request calls still explored in this behaviour
    \* ---- LiquidpediaClient, API mode and cache (wikisraper.py:165-167, 215-306)
    api_mode,           \* self.api_mode
    api_failure_count,  \* self.api_failure_count
    cache_expiry,       \* self.cache_expiry
    cache,              \* the files of cache_dir, by cache path
    now,                \* time.time()
    lookup,             \* the last _is_cache_valid call of _get: its path and its answer
    params,             \* the params dict _get_all_pages_api passes to _get
    depth,              \* nesting depth of _get (0: not inside _get)
    exc,                \* the exception in flight: "none", "error" or "APIFailure"
    get_result,         \* the data the last _get returned
    call_requests,      \* history: session.request calls of the outermost _get call
    call_increments,    \* history: api_failure_count += 1 executions of that call
    \* ---- LiquidpediaClient.get_all_pages (wikisraper.py:308-359)
    gen,                \* the generator: "none", "api", "web", "done", "raised_api", "raised_web"
    fallback,           \* history: this run entered the scraping enumeration from the except branch
    yielded,            \* the titles this run has yielded, in order
    page_url,           \* _get_all_pages_web: index of the listing page being fetched
    visited,            \* _get_all_pages_web: the visited set
    \* ---- scrape_with_cache (attributes.py:233-267, basedata.py:386-420, hero_main.py:274-308)
    scraper,            \* which script runs: it fixes the scrape function and the cache file
    scrape_file,        \* the cache file of that script
    scrape_pc,          \* "idle", or "scraping" between the cache check and the scrape's return
    call_ttl,           \* cache_ttl of the call in progress
    last_call,          \* history: the last scrape_with_cache call, what it found and did
    steam_result,       \* steamrev.py: what the last extract_subsection_descs() call did
    \* ---- scrape_all_hero_details (hero_details.py:441-531)
    max_workers,        \* max_workers of the ThreadPoolExecutor
    task,               \* per input hero: where its process_hero future is
    task_result,        \* per input hero: what its future holds once finished
    hero_cache,         \* the files of cache_dir, by slug of the hero name
    all_heroes,         \* the list all_heroes
    errors,             \* the list errors
    dataset,            \* the dataset returned, or NoDataset while the call runs
    \* ---- scrape_heroes_portal (hero_main.py:229-255)
    scraped_heroes,     \* the list heroes the extraction passes have filled
    portal_result,      \* the result returned, or NoPortalResult
    \* ---- GraphQLResolver.resolve_optimal_build (resolvers.py:69-121)
    hero_items,         \* the rows of hero_items for the hero, in the order fetched
    constraints,        \* the constraints argument
    build_cache,        \* the Redis entry under the cache key of the call
    build_result,       \* what the call returned, or NoBuild
    \* ---- AnalyticsEngine.calculate_patch_impact (schema/models.py:112-148)
    base_data,          \* the hero_patch_stats rows fetched for the base patch
    target_data,        \* the rows fetched for the target patch
    patch_env,          \* what the installation provides: see PatchEnvs
    patch_report,       \* what the call did: the report returned or the exception raised
    \* ---- STRATZ_Neo4j_Importer.import_hero_meta_to_neo4j (neo_query.py:178-293)
    graph,              \* the Neo4j graph: its nodes, in creation order, and relationships
    import_pc,          \* "idle", or "snapshots" inside the loop over meta_snapshots
    import_hero,        \* hero_id of the run in progress
    import_no,          \* history: the number of runs started
    snap_no,            \* history: the number of snapshots the run in progress has imported
    heroes_imported,    \* history: the hero ids of the runs started
    import_budget,      \* snapshots still explored in this behaviour
    \* ---- get_lisp_environment, classify_match_strategy (src/core.py:65-103)
    lisp_env,           \* the attribute get_lisp_environment.lisp: whether it is set, and
                        \* whether the rule file has been loaded into that interpreter
    lisp_created,       \* history: the number of interpreters Lisp() has created
    last_env_call,      \* history: the last get_lisp_environment call and what it returned
    request,            \* per request: where its classify_match_strategy handler is
    lisp_calls,         \* get_lisp_environment calls still explored in this behaviour
    \* ---- module initialization of src/sql_chain.py (lines 12-43)
    sql_env,            \* the environment of the process: see SqlEnvs
    sql_pc,             \* the statement the import of the module is at
    sql_created,        \* the module-level objects constructed so far
    sql_error,          \* the exception that ended the import, or "none"
    network_used,       \* whether the import has opened a network connection
    \* ---- export_to_graph(session, 'dict') (scripts/transform.py:382-406)
    db_matches,         \* the DotaMatch rows of the database, in query order
    export_pc,          \* "idle", "loop" (inside `for match in matches`) or "returned"
    export_next,        \* the index of the next match the loop processes
    export_nodes,       \* the keys of the dict nodes
    export_edges,       \* the list edges
    \* ---- DotaMatch.decode_tower_status (scripts/transform.py:106-123)
    tower_status_radiant,   \* the column tower_status_radiant of the match
    tower_status_dire,      \* the column tower_status_dire of the match
    decoded_side,           \* "none", or the side of the last decode_tower_status call
    towers,                 \* the dict the last call returned
    \* ---- AdvancedSchemaValidator.validate_type_compatibility (graph/validation.py:194-237)
    python_schemas,     \* per path of python_schema_paths, what _advanced_python_type_parsing returns
    graphql_schemas,    \* per path of graphql_schema_paths, the type declarations of the file
    validated,          \* whether validate_type_compatibility has returned
    issues,             \* the list it returned
    \* ---- data acquisition of the hero-level impact script (test-cases/query.py:176-255)
    match_players,      \* the joined MatchPlayers rows of the database, by start time
    match_players_data, \* the rows the query returned
    acq_pc,             \* "start", "loop" (inside `for match in match_players_data`) or "done"
    acq_next,           \* the index of the next row the loop processes
    role_data,          \* role -> list of (hero_level, impact_score)
    hero_data,          \* hero_id -> list of (hero_level, impact_score)
    player_hero_data    \* (player_id, hero_id) -> list of (timestamp, hero_level, impact_score, role)

rlVars     == <<base_rate, max_rate, current_rate, error_count, rl_lock,
                consecutive_errors, last_rl_call>>
reqVars    == <<rate_limit_lock, pc, waited, req_kind, response, budget>>
getVars    == <<api_mode, api_failure_count, cache_expiry, cache, now, lookup, params,
                depth, exc, get_result, call_requests, call_increments>>
genVars    == <<gen, fallback, yielded, page_url, visited>>
scrapeVars == <<scraper, scrape_file, scrape_pc, call_ttl, last_call, steam_result>>
heroVars   == <<max_workers, task, task_result, hero_cache, all_heroes, errors, dataset>>
portalVars == <<scraped_heroes, portal_result>>
buildVars  == <<hero_items, constraints, build_cache, build_result>>
patchVars  == <<base_data, target_data, patch_env, patch_report>>
importVars == <<graph, import_pc, import_hero, import_no, snap_no, heroes_imported,
                import_budget>>
lispVars   == <<lisp_env, lisp_created, last_env_call, request, lisp_calls>>
sqlVars    == <<sql_env, sql_pc, sql_created, sql_error, network_used>>
exportVars == <<db_matches, export_pc, export_next, export_nodes, export_edges>>
towerVars  == <<tower_status_radiant, tower_status_dire, decoded_side, towers>>
schemaVars == <<python_schemas, graphql_schemas, validated, issues>>
acqVars    == <<match_players, match_players_data, acq_pc, acq_next, role_data, hero_data, player_hero_data>>
\* The variables of the tools other than the wiki client and the page scrapers.
toolVars   == <<heroVars, portalVars, buildVars, patchVars, importVars, lispVars, sqlVars, exportVars, towerVars, schemaVars, acqVars>>
\* The variables of the wiki client and of the page scrapers.
wikiVars   == <<rlVars, reqVars, getVars, genVars, scrapeVars>>
\* What the actions of one tool leave unchanged: the variables of all others.
OutsideHeroes == <<wikiVars, portalVars, buildVars, patchVars, importVars, lispVars, sqlVars, exportVars, towerVars, schemaVars, acqVars>>
OutsidePortal == <<wikiVars, heroVars, buildVars, patchVars, importVars, lispVars, sqlVars, exportVars, towerVars, schemaVars, acqVars>>
OutsideBuild  == <<wikiVars, heroVars, portalVars, patchVars, importVars, lispVars, sqlVars, exportVars, towerVars, schemaVars, acqVars>>
OutsidePatch  == <<wikiVars, heroVars, portalVars, buildVars, importVars, lispVars, sqlVars, exportVars, towerVars, schemaVars, acqVars>>
OutsideImport == <<wikiVars, heroVars, portalVars, buildVars, patchVars, lispVars, sqlVars, exportVars, towerVars, schemaVars, acqVars>>
OutsideLisp   == <<wikiVars, heroVars, portalVars, buildVars, patchVars, importVars, sqlVars, exportVars, towerVars, schemaVars, acqVars>>
OutsideSql    == <<wikiVars, heroVars, portalVars, buildVars, patchVars, importVars, lispVars, exportVars, towerVars, schemaVars, acqVars>>
OutsideExport == <<wikiVars, heroVars, portalVars, buildVars, patchVars, importVars, lispVars, sqlVars, towerVars, schemaVars, acqVars>>
OutsideTowers == <<wikiVars, heroVars, portalVars, buildVars, patchVars, importVars, lispVars, sqlVars, exportVars, schemaVars, acqVars>>
OutsideSchema == <<wikiVars, heroVars, portalVars, buildVars, patchVars, importVars, lispVars, sqlVars, exportVars, towerVars, acqVars>>
OutsideAcq == <<wikiVars, heroVars, portalVars, buildVars, patchVars, importVars, lispVars, sqlVars, exportVars, towerVars, schemaVars>>
vars       == <<rlVars, reqVars, getVars, genVars, scrapeVars, toolVars>>

(***************************************************************************)
(* Bounds of the model.                                                    *)
(***************************************************************************)
NThreads       == 2    \* threads calling the client concurrently
ThreadRequests == 3    \* session.request calls explored by the concurrent specification
MaxRequests    == 7    \* session.request calls explored by the sequential specification
MaxTime        == 2    \* clock readings 0..MaxTime
WikiChunks     == 2    \* listing pages the wiki holds (API chunks, Special:AllPages pages)
NHeroes        == 3    \* input heroes of scrape_all_hero_details, at most
MaxWorkers     == 2    \* max_workers of its thread pool, at most
MaxScraped     == 3    \* entries scraped from the heroes portal, at most
NItems         == 7    \* items of the catalogue a hero can have rows for
MaxPatchRows   == 2    \* hero_patch_stats rows of one hero and patch, at most
MaxMatches     == 2    \* matches counted by one hero_patch_stats row, at most
MaxImports     == 2    \* import_hero_meta_to_neo4j runs in one behaviour
MaxSnapshots   == 3    \* snapshots imported into the graph in one behaviour
NRequests      == 2    \* strategy-classification requests in flight at once
MaxLispCalls   == 3    \* get_lisp_environment calls in one behaviour
MaxDbMatches   == 1    \* DotaMatch rows of the database, at most
StatusBits     == 12   \* bits of a tower status value
MaxPythonPaths == 2    \* entries of python_schema_paths, at most
MaxPlayerRows  == 2    \* MatchPlayers rows of the database, at most

Threads    == 1..NThreads
MainThread == 1

(***************************************************************************)
(* Exact rational arithmetic for the float-valued delays.                  *)
(***************************************************************************)
RECURSIVE GCD(_, _)
GCD(a, b) == IF b = 0 THEN a ELSE GCD(b, a % b)

Rat(n, d)   == LET g == GCD(n, d) IN <<n \div g, d \div g>>
RMul(a, b)  == Rat(a[1] * b[1], a[2] * b[2])
RLess(a, b) == a[1] * b[2] < b[1] * a[2]
RLeq(a, b)  == a[1] * b[2] <= b[1] * a[2]
RMin(a, b)  == IF RLess(b, a) THEN b ELSE a
RMax(a, b)  == IF RLess(a, b) THEN b ELSE a

(***************************************************************************)
(* RateLimiter.__init__ defaults and the values LiquidpediaClient passes.  *)
(***************************************************************************)
error_threshold == 3
backoff_factor  == <<3, 2>>     \* 1.5
recovery_factor == <<9, 10>>    \* 0.9
max_rate_factor == 5            \* max_rate = rate_limit * 5

\* rate_limit values a client is constructed with (all > 0): 0.5 s and 2.0 s.
RateLimits == { <<1, 2>>, <<2, 1>> }

(***************************************************************************)
(* RateLimiter.success(): the new rate, computed as the code does.         *)
(***************************************************************************)
SuccessRateNoFloor(cur, base) == RMul(cur, recovery_factor)

SuccessRate(cur, base) ==
    IF RLess(base, cur)
    THEN RMax(base, RMul(cur, recovery_factor))
    ELSE cur

(***************************************************************************)
(* RateLimiter.error(): whether the incremented counter reaches the        *)
(* threshold, and the new rate and counter.                                *)
(***************************************************************************)
ErrorEscalatesLate(cnt) == cnt >= error_threshold

ErrorEscalates(cnt) == cnt + 1 >= error_threshold

ErrorRateUncapped(cur, cnt, max) ==
    IF ErrorEscalates(cnt) THEN RMul(cur, backoff_factor) ELSE cur

ErrorRate(cur, cnt, max) ==
    IF ErrorEscalates(cnt)
    THEN RMin(max, RMul(cur, backoff_factor))
    ELSE cur

ErrorCount(cnt) == IF ErrorEscalates(cnt) THEN 0 ELSE cnt + 1

(***************************************************************************)
(* The limiter after n consecutive error() calls on a fresh limiter,       *)
(* followed by m consecutive success() calls: the states a client that has *)
(* already made n failed and then m answered requests starts from.         *)
(***************************************************************************)
RECURSIVE AfterErrors(_, _)
AfterErrors(rate_limit, n) ==
    IF n = 0
    THEN [rate |-> rate_limit, count |-> 0]
    ELSE LET p == AfterErrors(rate_limit, n - 1)
             m == RMul(rate_limit, <<max_rate_factor, 1>>)
         IN  [rate |-> ErrorRate(p.rate, p.count, m), count |-> ErrorCount(p.count)]

RECURSIVE AfterCalls(_, _, _)
AfterCalls(rate_limit, n, m) ==
    IF m = 0
    THEN AfterErrors(rate_limit, n)
    ELSE [rate |-> SuccessRate(AfterCalls(rate_limit, n, m - 1).rate, rate_limit),
          count |-> 0]

\* Earlier requests the concurrent specification starts after: <<failed, then answered>>.
PriorCalls == {<<0, 0>>, <<2, 0>>, <<11, 0>>, <<3, 3>>}

RateLimiterInit(rate_limit, prior) ==
    /\ base_rate = rate_limit
    /\ max_rate = RMul(rate_limit, <<max_rate_factor, 1>>)
    /\ current_rate = AfterCalls(rate_limit, prior[1], prior[2]).rate
    /\ error_count = AfterCalls(rate_limit, prior[1], prior[2]).count
    /\ rl_lock = 0
    /\ consecutive_errors = IF prior[2] > 0 THEN 0 ELSE prior[1]
    /\ last_rl_call = [op |-> "none", rate |-> rate_limit, count |-> 0]

(***************************************************************************)
(* RateLimiter.wait(), first half: take self._lock, then sleep while       *)
(* holding it.  Called from _request_with_rate_limit (pc "cs_wait") and    *)
(* from _get_all_pages_api between two listing pages (pc "list_wait").     *)
(***************************************************************************)
wait_enter(t) ==
    /\ pc[t] \in {"cs_wait", "list_wait"}
    /\ rl_lock = 0
    /\ rl_lock' = t
    /\ pc' = [pc EXCEPT ![t] = IF pc[t] = "cs_wait" THEN "cs_sleep" ELSE "list_sleep"]
    /\ UNCHANGED <<base_rate, max_rate, current_rate, error_count, consecutive_errors,
                   last_rl_call>>
    /\ UNCHANGED <<rate_limit_lock, waited, req_kind, response, budget>>
    /\ UNCHANGED <<getVars, genVars>>
    /\ UNCHANGED <<scrapeVars, toolVars>>

(***************************************************************************)
(* RateLimiter.wait(), second half: the sleep is over, last_request_time   *)
(* is stamped and self._lock released.                                     *)
(***************************************************************************)
wait_exit(t) ==
    /\ pc[t] \in {"cs_sleep", "list_sleep"}
    /\ rl_lock = t
    /\ rl_lock' = 0
    /\ waited' = [waited EXCEPT ![t] = (pc[t] = "cs_sleep")]
    /\ pc' = [pc EXCEPT ![t] = IF pc[t] = "cs_sleep" THEN "cs_send" ELSE "list_waited"]
    /\ UNCHANGED <<base_rate, max_rate, current_rate, error_count, consecutive_errors,
                   last_rl_call>>
    /\ UNCHANGED <<rate_limit_lock, req_kind, response, budget>>
    /\ UNCHANGED <<getVars, genVars>>
    /\ UNCHANGED <<scrapeVars, toolVars>>

(***************************************************************************)
(* The guard of `with self._rate_limit_lock`: it blocks until the lock is  *)
(* free.                                                                   *)
(***************************************************************************)
RateLimitLockIgnored == TRUE

RateLimitLockFree == rate_limit_lock = 0

(***************************************************************************)
(* _request_with_rate_limit, entry: acquire self._rate_limit_lock.         *)
(***************************************************************************)
request_enter(t) ==
    /\ pc[t] = "call_request"
    /\ RateLimitLockFree
    /\ rate_limit_lock' = t
    /\ pc' = [pc EXCEPT ![t] = "cs_wait"]
    /\ UNCHANGED rlVars
    /\ UNCHANGED <<waited, req_kind, response, budget>>
    /\ UNCHANGED <<getVars, genVars>>
    /\ UNCHANGED <<scrapeVars, toolVars>>

(***************************************************************************)
(* self.session.request(...) is entered.                                   *)
(***************************************************************************)
session_request(t) ==
    /\ pc[t] = "cs_send"
    /\ budget > 0
    /\ budget' = budget - 1
    /\ pc' = [pc EXCEPT ![t] = "in_request"]
    /\ call_requests' = IF depth > 0 THEN call_requests + 1 ELSE call_requests
    /\ UNCHANGED rlVars
    /\ UNCHANGED <<rate_limit_lock, waited, req_kind, response>>
    /\ UNCHANGED <<api_mode, api_failure_count, cache_expiry, cache, now, lookup, params,
                   depth, exc, get_result, call_increments>>
    /\ UNCHANGED genVars
    /\ UNCHANGED <<scrapeVars, toolVars>>

(***************************************************************************)
(* session.request returns a Response (whatever its status: the adapter is *)
(* built with raise_on_status=False): rate_limiter.success() runs under    *)
(* its own lock, then the response is returned and the client lock         *)
(* released.                                                               *)
(***************************************************************************)
request_success(t) ==
    /\ pc[t] = "in_request"
    /\ rl_lock = 0
    /\ response' = [response EXCEPT ![t] = "returned"]
    /\ error_count' = 0
    /\ consecutive_errors' = 0
    /\ last_rl_call' = [op |-> "success", rate |-> current_rate, count |-> error_count]
    /\ current_rate' = SuccessRate(current_rate, base_rate)
    /\ rate_limit_lock' = 0
    /\ waited' = [waited EXCEPT ![t] = FALSE]
    /\ pc' = [pc EXCEPT ![t] = "request_done"]
    /\ UNCHANGED <<base_rate, max_rate, rl_lock>>
    /\ UNCHANGED <<req_kind, budget>>
    /\ UNCHANGED <<getVars, genVars>>
    /\ UNCHANGED <<scrapeVars, toolVars>>

(***************************************************************************)
(* session.request raises (connection error, timeout, retries exhausted):  *)
(* rate_limiter.error() runs under its own lock, then the exception is     *)
(* re-raised and the client lock released.                                 *)
(***************************************************************************)
request_error(t) ==
    /\ pc[t] = "in_request"
    /\ rl_lock = 0
    /\ response' = [response EXCEPT ![t] = "raised"]
    /\ error_count' = ErrorCount(error_count)
    /\ consecutive_errors' = consecutive_errors + 1
    /\ last_rl_call' = [op |-> "error", rate |-> current_rate, count |-> error_count]
    /\ current_rate' = ErrorRate(current_rate, error_count, max_rate)
    /\ rate_limit_lock' = 0
    /\ waited' = [waited EXCEPT ![t] = FALSE]
    /\ pc' = [pc EXCEPT ![t] = "request_done"]
    /\ UNCHANGED <<base_rate, max_rate, rl_lock>>
    /\ UNCHANGED <<req_kind, budget>>
    /\ UNCHANGED <<getVars, genVars>>
    /\ UNCHANGED <<scrapeVars, toolVars>>

(***************************************************************************)
(* Callers, for the concurrent specification: a thread starts an API call  *)
(* or a scraping fetch, or calls rate_limiter.wait() on its own (as        *)
(* _get_all_pages_api does between two pages), and takes the result.       *)
(***************************************************************************)
thread_call_request(t) ==
    /\ pc[t] = "idle"
    /\ \E k \in {"api", "web"} : req_kind' = [req_kind EXCEPT ![t] = k]
    /\ pc' = [pc EXCEPT ![t] = "call_request"]
    /\ UNCHANGED rlVars
    /\ UNCHANGED <<rate_limit_lock, waited, response, budget>>
    /\ UNCHANGED <<getVars, genVars>>
    /\ UNCHANGED <<scrapeVars, toolVars>>

thread_call_wait(t) ==
    /\ pc[t] = "idle"
    /\ pc' = [pc EXCEPT ![t] = "list_wait"]
    /\ UNCHANGED rlVars
    /\ UNCHANGED <<rate_limit_lock, waited, req_kind, response, budget>>
    /\ UNCHANGED <<getVars, genVars>>
    /\ UNCHANGED <<scrapeVars, toolVars>>

thread_return(t) ==
    /\ pc[t] \in {"request_done", "list_waited"}
    /\ pc' = [pc EXCEPT ![t] = "idle"]
    /\ req_kind' = [req_kind EXCEPT ![t] = "api"]
    /\ response' = [response EXCEPT ![t] = "none"]
    /\ UNCHANGED rlVars
    /\ UNCHANGED <<rate_limit_lock, waited, budget>>
    /\ UNCHANGED <<getVars, genVars>>
    /\ UNCHANGED <<scrapeVars, toolVars>>

(***************************************************************************)
(* The wiki as the client sees it.  The API listing comes in WikiChunks    *)
(* chunks: the request without a continuation token gets chunk 0, the      *)
(* token k gets chunk k, and every chunk but the last carries the token of *)
(* the next one (0 stands for "no continue key").  Special:AllPages comes  *)
(* in as many pages; consecutive pages share a title.                      *)
(***************************************************************************)
ApiTitles(c)  == <<2 * c + 1, 2 * c + 2>>
ApiNext(c)    == IF c + 1 < WikiChunks THEN c + 1 ELSE 0
WebTitles(u)  == <<2 * u + 1, 2 * u + 2, 2 * u + 3>>
WebHasNext(u) == u + 1 < WikiChunks

(***************************************************************************)
(* The params dict: the continuation token it holds, and whether           *)
(* params.update({"format", "formatversion", "maxlag"}) has been applied   *)
(* to it.  _get_cache_path hashes the sorted JSON of the whole dict, so    *)
(* two dicts have the same path exactly when they have the same entries.   *)
(***************************************************************************)
ParamDicts == [cont : 0..(WikiChunks - 1), ext : BOOLEAN]
_get_cache_path(p) == <<p.cont, p.ext>>
CachePaths == {_get_cache_path(p) : p \in ParamDicts}

NoFile   == [exists |-> FALSE, mtime |-> 0, data |-> 0]
NoLookup == [done |-> FALSE, path |-> <<0, FALSE>>, valid |-> FALSE]

\* cache_expiry values a client is constructed with.
CacheExpiries == {0 - 1, 0, 1}

max_api_failures == 5

(***************************************************************************)
(* LiquidpediaClient._is_cache_valid.                                      *)
(***************************************************************************)
_is_cache_valid_inclusive(file) ==
    IF ~file.exists THEN FALSE
    ELSE IF cache_expiry <= 0 THEN TRUE
    ELSE (now - file.mtime) <= cache_expiry

_is_cache_valid(file) ==
    IF ~file.exists THEN FALSE
    ELSE IF cache_expiry <= 0 THEN TRUE
    ELSE (now - file.mtime) < cache_expiry

(***************************************************************************)
(* LiquidpediaClient._save_to_cache: the cache directory after the write.  *)
(***************************************************************************)
_save_to_cache(p, data) ==
    [cache EXCEPT ![_get_cache_path(p)] = [exists |-> TRUE, mtime |-> now, data |-> data]]

(***************************************************************************)
(* _get, lines 274-279: the cache lookup (_get_from_cache), and on a miss  *)
(* params.update(...), which changes the caller's dict.                    *)
(* The client has a cache_dir, as the one main() builds, and the cached    *)
(* files are the non-empty JSON objects _save_to_cache wrote.              *)
(***************************************************************************)
_get_lookup(t) ==
    /\ pc[t] = "get_entry"
    /\ LET path  == _get_cache_path(params)
           valid == _is_cache_valid(cache[path])
       IN  /\ lookup' = [done |-> TRUE, path |-> path, valid |-> valid]
           /\ \/ /\ valid
                 /\ get_result' = cache[path].data
                 /\ depth' = 0
                 /\ pc' = [pc EXCEPT ![t] = "get_returned"]
                 /\ UNCHANGED <<params, req_kind>>
              \/ /\ ~valid
                 /\ params' = [params EXCEPT !.ext = TRUE]
                 /\ req_kind' = [req_kind EXCEPT ![t] = "api"]
                 /\ pc' = [pc EXCEPT ![t] = "call_request"]
                 /\ UNCHANGED <<get_result, depth>>
    /\ UNCHANGED rlVars
    /\ UNCHANGED <<rate_limit_lock, waited, response, budget>>
    /\ UNCHANGED <<api_mode, api_failure_count, cache_expiry, cache, now, exc,
                   call_requests, call_increments>>
    /\ UNCHANGED genVars
    /\ UNCHANGED <<scrapeVars, toolVars>>

(***************************************************************************)
(* _get, lines 281-294: what the try block does with the outcome of        *)
(* _request_with_rate_limit.  A returned response is one of                *)
(*   "http_error"  a 4xx/5xx status: raise_for_status() raises             *)
(*   "bad_json"    a body response.json() cannot decode                    *)
(*   "maxlag"      error.code == "maxlag": sleep, then return _get(params) *)
(*   "ok"          the data asked for: saved to the cache and returned     *)
(***************************************************************************)
ResponseKinds == {"http_error", "bad_json", "maxlag", "ok"}

CountKeptOnSuccess(count) == count

\* Line 284: self.api_failure_count = 0.
CountOnSuccess(count) == 0

_get_response(t) ==
    /\ pc[t] = "request_done"
    /\ req_kind[t] = "api"
    /\ depth > 0
    /\ lookup' = NoLookup
    /\ response' = [response EXCEPT ![t] = "none"]
    /\ \/ /\ response[t] = "raised"
          /\ exc' = "error"
          /\ pc' = [pc EXCEPT ![t] = "get_except"]
          /\ UNCHANGED <<api_failure_count, cache, depth, get_result>>
       \/ /\ response[t] = "returned"
          /\ \E kind \in ResponseKinds :
                \/ /\ kind \in {"http_error", "bad_json"}
                   /\ exc' = "error"
                   /\ pc' = [pc EXCEPT ![t] = "get_except"]
                   /\ UNCHANGED <<api_failure_count, cache, depth, get_result>>
                \/ /\ kind = "maxlag"
                   /\ api_failure_count' = CountOnSuccess(api_failure_count)
                   /\ depth' = depth + 1
                   /\ pc' = [pc EXCEPT ![t] = "get_entry"]
                   /\ UNCHANGED <<cache, exc, get_result>>
                \/ /\ kind = "ok"
                   /\ api_failure_count' = CountOnSuccess(api_failure_count)
                   /\ cache' = _save_to_cache(params, params.cont)
                   /\ get_result' = params.cont
                   /\ depth' = 0
                   /\ pc' = [pc EXCEPT ![t] = "get_returned"]
                   /\ UNCHANGED exc
    /\ UNCHANGED rlVars
    /\ UNCHANGED <<rate_limit_lock, waited, req_kind, budget>>
    /\ UNCHANGED <<api_mode, cache_expiry, now, params, call_requests, call_increments>>
    /\ UNCHANGED genVars
    /\ UNCHANGED <<scrapeVars, toolVars>>

(***************************************************************************)
(* _get, lines 296-306: the except handler of one nesting level.  An       *)
(* exception raised inside a nested `return self._get(params)` passes      *)
(* through the handler of every enclosing level.                           *)
(***************************************************************************)
ExceededMaxFailures(count) == count > max_api_failures

ReachedMaxFailures(count) == count >= max_api_failures

_get_except(t) ==
    /\ pc[t] = "get_except"
    /\ depth > 0
    /\ api_failure_count' = api_failure_count + 1
    /\ call_increments' = call_increments + 1
    /\ IF ReachedMaxFailures(api_failure_count')
       THEN /\ api_mode' = FALSE
            /\ exc' = "APIFailure"
       ELSE UNCHANGED <<api_mode, exc>>
    /\ depth' = depth - 1
    /\ pc' = [pc EXCEPT ![t] = IF depth' = 0 THEN "get_raised" ELSE "get_except"]
    /\ UNCHANGED rlVars
    /\ UNCHANGED <<rate_limit_lock, waited, req_kind, response, budget>>
    /\ UNCHANGED <<cache_expiry, cache, now, lookup, params, get_result, call_requests>>
    /\ UNCHANGED genVars
    /\ UNCHANGED <<scrapeVars, toolVars>>

(***************************************************************************)
(* get_all_pages, lines 310-317 up to the first request: in API mode       *)
(* _get_all_pages_api builds its params dict and calls _get; otherwise     *)
(* _get_all_pages_web fetches Special:AllPages.                            *)
(***************************************************************************)
get_all_pages(t) ==
    /\ pc[t] = "idle"
    /\ gen \in {"none", "done", "raised_api", "raised_web"}
    /\ yielded' = <<>>
    /\ fallback' = FALSE
    /\ exc' = "none"
    /\ visited' = {}
    /\ page_url' = 0
    /\ call_requests' = 0
    /\ call_increments' = 0
    /\ IF api_mode
       THEN /\ gen' = "api"
            /\ params' = [cont |-> 0, ext |-> FALSE]
            /\ depth' = 1
            /\ pc' = [pc EXCEPT ![t] = "get_entry"]
            /\ UNCHANGED req_kind
       ELSE /\ gen' = "web"
            /\ req_kind' = [req_kind EXCEPT ![t] = "web"]
            /\ pc' = [pc EXCEPT ![t] = "call_request"]
            /\ UNCHANGED <<params, depth>>
    /\ UNCHANGED rlVars
    /\ UNCHANGED <<rate_limit_lock, waited, response, budget>>
    /\ UNCHANGED <<api_mode, api_failure_count, cache_expiry, cache, now, lookup, get_result>>
    /\ UNCHANGED <<scrapeVars, toolVars>>

(***************************************************************************)
(* _get_all_pages_api, lines 328-336: _get returned; yield the pages of    *)
(* the chunk, stop when there is no continuation, else rate_limiter.wait().*)
(***************************************************************************)
api_page(t) ==
    /\ pc[t] = "get_returned"
    /\ gen = "api"
    /\ yielded' = yielded \o ApiTitles(get_result)
    /\ lookup' = NoLookup
    /\ IF ApiNext(get_result) = 0
       THEN /\ gen' = "done"
            /\ pc' = [pc EXCEPT ![t] = "idle"]
       ELSE /\ gen' = gen
            /\ pc' = [pc EXCEPT ![t] = "list_wait"]
    /\ UNCHANGED rlVars
    /\ UNCHANGED <<rate_limit_lock, waited, req_kind, response, budget>>
    /\ UNCHANGED <<api_mode, api_failure_count, cache_expiry, cache, now, params, depth,
                   exc, get_result, call_requests, call_increments>>
    /\ UNCHANGED <<fallback, page_url, visited>>
    /\ UNCHANGED <<scrapeVars, toolVars>>

(***************************************************************************)
(* _get_all_pages_api, lines 325-326: the next turn of the loop,           *)
(* params.update(continuation) and the next _get call.                     *)
(***************************************************************************)
api_next(t) ==
    /\ pc[t] = "list_waited"
    /\ gen = "api"
    /\ params' = [params EXCEPT !.cont = ApiNext(get_result)]
    /\ depth' = 1
    /\ call_requests' = 0
    /\ call_increments' = 0
    /\ pc' = [pc EXCEPT ![t] = "get_entry"]
    /\ UNCHANGED rlVars
    /\ UNCHANGED <<rate_limit_lock, waited, req_kind, response, budget>>
    /\ UNCHANGED <<api_mode, api_failure_count, cache_expiry, cache, now, lookup,
                   exc, get_result>>
    /\ UNCHANGED genVars
    /\ UNCHANGED <<scrapeVars, toolVars>>

(***************************************************************************)
(* get_all_pages, lines 314-317: _get raised inside _get_all_pages_api.    *)
(* The except clause names APIFailureException only.                       *)
(***************************************************************************)
CaughtAnyException(e) == TRUE

CaughtByGetAllPages(e) == e = "APIFailure"

api_raised(t) ==
    /\ pc[t] = "get_raised"
    /\ gen = "api"
    /\ IF CaughtByGetAllPages(exc)
       THEN /\ gen' = "web"
            /\ fallback' = TRUE
            /\ exc' = "none"
            /\ req_kind' = [req_kind EXCEPT ![t] = "web"]
            /\ pc' = [pc EXCEPT ![t] = "call_request"]
       ELSE /\ gen' = "raised_api"
            /\ pc' = [pc EXCEPT ![t] = "idle"]
            /\ UNCHANGED <<fallback, exc, req_kind>>
    /\ UNCHANGED rlVars
    /\ UNCHANGED <<rate_limit_lock, waited, response, budget>>
    /\ UNCHANGED <<api_mode, api_failure_count, cache_expiry, cache, now, lookup, params,
                   depth, get_result, call_requests, call_increments>>
    /\ UNCHANGED <<yielded, page_url, visited>>
    /\ UNCHANGED <<scrapeVars, toolVars>>

(***************************************************************************)
(* _get_all_pages_web, lines 348-352: the titles of one listing page that  *)
(* are not in visited yet, in page order.                                  *)
(***************************************************************************)
RECURSIVE NewTitles(_, _)
NewTitles(titles, seen) ==
    IF titles = <<>> THEN <<>>
    ELSE IF Head(titles) \in seen
         THEN NewTitles(Tail(titles), seen)
         ELSE <<Head(titles)>> \o NewTitles(Tail(titles), seen \cup {Head(titles)})

Range(s) == {s[i] : i \in DOMAIN s}

(***************************************************************************)
(* _get_all_pages_web, lines 344-359: the outcome of one listing fetch.    *)
(* A raised request is logged and re-raised.  A returned response is       *)
(* parsed whatever its status: a listing page yields its new titles and    *)
(* leads to its "Next page" link; any other page (an error page, a block   *)
(* page) has neither titles nor link and ends the enumeration.             *)
(***************************************************************************)
web_page(t) ==
    /\ pc[t] = "request_done"
    /\ req_kind[t] = "web"
    /\ gen = "web"
    /\ response' = [response EXCEPT ![t] = "none"]
    /\ \/ /\ response[t] = "raised"
          /\ gen' = "raised_web"
          /\ exc' = "error"
          /\ req_kind' = [req_kind EXCEPT ![t] = "api"]
          /\ pc' = [pc EXCEPT ![t] = "idle"]
          /\ UNCHANGED <<yielded, page_url, visited>>
       \/ /\ response[t] = "returned"
          /\ yielded' = yielded \o NewTitles(WebTitles(page_url), visited)
          /\ visited' = visited \cup Range(WebTitles(page_url))
          /\ UNCHANGED exc
          /\ IF WebHasNext(page_url)
             THEN /\ page_url' = page_url + 1
                  /\ gen' = gen
                  /\ req_kind' = [req_kind EXCEPT ![t] = "web"]
                  /\ pc' = [pc EXCEPT ![t] = "call_request"]
             ELSE /\ gen' = "done"
                  /\ req_kind' = [req_kind EXCEPT ![t] = "api"]
                  /\ pc' = [pc EXCEPT ![t] = "idle"]
                  /\ UNCHANGED page_url
       \/ /\ response[t] = "returned"
          /\ gen' = "done"
          /\ req_kind' = [req_kind EXCEPT ![t] = "api"]
          /\ pc' = [pc EXCEPT ![t] = "idle"]
          /\ UNCHANGED <<yielded, page_url, visited, exc>>
    /\ UNCHANGED rlVars
    /\ UNCHANGED <<rate_limit_lock, waited, budget>>
    /\ UNCHANGED <<api_mode, api_failure_count, cache_expiry, cache, now, lookup, params,
                   depth, get_result, call_requests, call_increments>>
    /\ UNCHANGED fallback
    /\ UNCHANGED <<scrapeVars, toolVars>>

(***************************************************************************)
(* Time passes.  The client reads the clock in _is_cache_valid and the     *)
(* file system stamps st_mtime in _save_to_cache, so it is enough to let   *)
(* the clock advance between two calls and before a cache lookup (which    *)
(* covers the sleep before a maxlag retry).                                *)
(***************************************************************************)
clock_tick ==
    /\ now < MaxTime
    /\ pc[MainThread] \in {"idle", "get_entry"}
    /\ now' = now + 1
    /\ UNCHANGED rlVars
    /\ UNCHANGED reqVars
    /\ UNCHANGED <<api_mode, api_failure_count, cache_expiry, cache, lookup, params,
                   depth, exc, get_result, call_requests, call_increments>>
    /\ UNCHANGED genVars
    /\ UNCHANGED <<scrapeVars, toolVars>>

(***************************************************************************)
(* Part 2.  scrape_with_cache of the single-page scrapers.  The three      *)
(* scripts hold the same function; they differ in the scrape function      *)
(* called and in the default cache file.                                   *)
(***************************************************************************)
\* The variables of the wiki client, but the clock: no scraper touches them.
ClientFrame == <<rlVars, reqVars, api_mode, api_failure_count, cache_expiry, cache, lookup,
                 params, depth, exc, get_result, call_requests, call_increments, genVars>>

Scrapers == {"attributes", "basedata", "hero_main"}

\* cache_ttl values scrape_with_cache is called with.
CacheTTLs == {0, 1, 2}

\* A cache file: whether it exists, its st_mtime, whether open(cache_file, 'r')
\* succeeds (readable), whether json.load then accepts its content (parseable),
\* and whether open(cache_file, 'w') succeeds (writable).
NoCacheFile == [exists |-> FALSE, mtime |-> 0, readable |-> FALSE, parseable |-> FALSE,
                writable |-> TRUE]
CacheFiles  == [exists : {FALSE}, mtime : {0}, readable : {FALSE}, parseable : {FALSE},
                writable : BOOLEAN] \cup
               {f \in [exists : {TRUE}, mtime : 0..MaxTime, readable : BOOLEAN,
                       parseable : BOOLEAN, writable : BOOLEAN] :
                     f.parseable => f.readable}
NoCall      == [done |-> FALSE, ttl |-> 0, file |-> NoCacheFile, at |-> 0,
                from_cache |-> FALSE, fetched |-> FALSE, status |-> "none"]

(***************************************************************************)
(* scrape_with_cache, lines 248-250: os.path.exists(cache_file) and        *)
(* cache_age < cache_ttl, with cache_age = time.time() - getmtime.         *)
(***************************************************************************)
CacheFreshInclusive(file, ttl) == file.exists /\ (now - file.mtime) <= ttl

CacheFresh(file, ttl) == file.exists /\ (now - file.mtime) < ttl

(***************************************************************************)
(* scrape_with_cache, lines 248-256: a fresh cache file that json.load     *)
(* accepts is returned; a fresh file that raises JSONDecodeError, a stale  *)
(* file and a missing file lead to the scrape.  open(cache_file, 'r') is   *)
(* outside the try block: the OSError of a fresh file that cannot be       *)
(* opened leaves scrape_with_cache.                                        *)
(***************************************************************************)
scrape_with_cache(ttl) ==
    /\ scrape_pc = "idle"
    /\ call_ttl' = ttl
    /\ IF CacheFresh(scrape_file, ttl) /\ ~scrape_file.readable
       THEN /\ last_call' = [done |-> TRUE, ttl |-> ttl, file |-> scrape_file, at |-> now,
                             from_cache |-> FALSE, fetched |-> FALSE, status |-> "raised"]
            /\ scrape_pc' = "idle"
       ELSE IF CacheFresh(scrape_file, ttl) /\ scrape_file.parseable
       THEN /\ last_call' = [done |-> TRUE, ttl |-> ttl, file |-> scrape_file, at |-> now,
                             from_cache |-> TRUE, fetched |-> FALSE, status |-> "cached"]
            /\ scrape_pc' = "idle"
       ELSE /\ last_call' = [done |-> FALSE, ttl |-> ttl, file |-> scrape_file, at |-> now,
                             from_cache |-> FALSE, fetched |-> FALSE, status |-> "none"]
            /\ scrape_pc' = "scraping"
    /\ UNCHANGED <<scraper, scrape_file, steam_result, now>>
    /\ UNCHANGED <<ClientFrame, toolVars>>

(***************************************************************************)
(* What a page fetch can run into: requests.get raises (connection error,  *)
(* timeout), the status is not 200, the element looked for is not in the   *)
(* page, the parsing code raises, or the page is as expected.              *)
(***************************************************************************)
PageEvents == {"request_raised", "http_error", "no_element", "parse_raised", "page_ok"}

(***************************************************************************)
(* The page scrapers scrape_dota2_heroes, scrape_dota2_hero_introductions  *)
(* and scrape_heroes_portal: the whole body is inside                      *)
(* try / except RequestException / except Exception, raise_for_status()    *)
(* turns a 4xx/5xx status into a RequestException, and a missing table or  *)
(* section is an early return of an error result.                          *)
(***************************************************************************)
ScrapePage(event) ==
    CASE event = "request_raised" -> "error"    \* except RequestException
      [] event = "http_error"     -> "error"    \* raise_for_status(), except RequestException
      [] event = "no_element"     -> "error"    \* return {"status": "error", ...}
      [] event = "parse_raised"   -> "error"    \* except Exception
      [] event = "page_ok"        -> "success"

(***************************************************************************)
(* scrape_with_cache, lines 258-267: the scrape function fetches the page  *)
(* and returns a result with status "success" or "error"; a success is     *)
(* written to the cache file.                                              *)
(***************************************************************************)
SavedWhateverTheStatus(status) == status \in {"success", "error"}

\* Line 262: if result.get("status") == "success".
SavedToCache(status) == status = "success"

scrape_returns(event) ==
    /\ scrape_pc = "scraping"
    /\ LET status == ScrapePage(event)
       IN  IF SavedToCache(status) /\ ~scrape_file.writable
           THEN \* open(cache_file, 'w') raises OSError: nothing is written and
                \* the exception leaves scrape_with_cache
                /\ last_call' = [last_call EXCEPT !.done = TRUE, !.fetched = TRUE,
                                                  !.status = "raised"]
                /\ UNCHANGED scrape_file
           ELSE /\ last_call' = [last_call EXCEPT !.done = TRUE, !.fetched = TRUE,
                                                  !.status = status]
                /\ scrape_file' = IF SavedToCache(status)
                                  THEN [exists |-> TRUE, mtime |-> now, readable |-> TRUE,
                                        parseable |-> TRUE, writable |-> TRUE]
                                  ELSE scrape_file
    /\ scrape_pc' = "idle"
    /\ UNCHANGED <<scraper, call_ttl, steam_result, now>>
    /\ UNCHANGED <<ClientFrame, toolVars>>

(***************************************************************************)
(* steamrev.py, extract_subsection_descs: no try block.  An exception of   *)
(* requests.get or of the parsing propagates, and a status other than 200  *)
(* and an empty find_all result each raise RuntimeError; otherwise the     *)
(* list of texts is returned.                                              *)
(***************************************************************************)
extract_subsection_descs(event) ==
    /\ scrape_pc = "idle"
    /\ steam_result' =
          CASE event = "request_raised" -> "raised"    \* requests.get, line 11
            [] event = "http_error"     -> "raised"    \* RuntimeError, line 13
            [] event = "no_element"     -> "raised"    \* RuntimeError, line 19
            [] event = "parse_raised"   -> "raised"    \* lines 15-28
            [] event = "page_ok"        -> "texts"
    /\ UNCHANGED <<scraper, scrape_file, scrape_pc, call_ttl, last_call, now>>
    /\ UNCHANGED <<ClientFrame, toolVars>>

scrape_clock_tick ==
    /\ now < MaxTime
    /\ now' = now + 1
    /\ UNCHANGED scrapeVars
    /\ UNCHANGED <<ClientFrame, toolVars>>

ScrapeInit(s, f) ==
    /\ scraper = s
    /\ scrape_file = f
    /\ scrape_pc = "idle"
    /\ call_ttl = 0
    /\ last_call = NoCall
    /\ steam_result = "none"

\* What the scraper variables hold in the specifications of the other parts.
ScrapeIdle == ScrapeInit("attributes", NoCacheFile)

(***************************************************************************)
(* Part 3.  scrape_all_hero_details of scripts/hero_details.py: one        *)
(* process_hero future per input hero on a ThreadPoolExecutor, collected   *)
(* by the calling thread as the futures complete.                          *)
(***************************************************************************)
\* The input list: heroes[i] is hero i.  The names of heroes 2k-1 and 2k differ
\* only in characters that re.sub(r'[^\w]', '_', name) replaces, so the two share
\* one cache file.
HeroLists == {[i \in 1..n |-> i] : n \in 0..NHeroes}
Slug(h)   == (h + 1) \div 2
Slugs     == {Slug(h) : h \in 1..NHeroes}

\* A file of cache_dir: "missing"; "unreadable" (open raises PermissionError);
\* "corrupt" (json.load raises JSONDecodeError, as for an empty or half-written
\* file); "error" (a stored result whose status is not "success"); or "success",
\* a stored success result that carries the details of hero `hero`.
HeroFile(kind, d) == [kind |-> kind, hero |-> d]
HeroFiles(s) == {HeroFile(k, 0) : k \in {"missing", "unreadable", "corrupt", "error"}} \cup
                {HeroFile("success", d) : d \in {d \in 1..NHeroes : Slug(d) = s}}

NoResult  == [status |-> "none", hero |-> 0]
NoDataset == [status |-> "none", hero_count |-> 0, has_errors |-> FALSE, error_count |-> 0]

Running == {h \in DOMAIN task : task[h] \in {"check", "scrape", "write"}}

(***************************************************************************)
(* A worker thread of the pool takes the next queued future (the queue is  *)
(* first in, first out) and enters process_hero.                           *)
(***************************************************************************)
hero_start(h) ==
    /\ dataset = NoDataset
    /\ h \in DOMAIN task
    /\ task[h] = "pending"
    /\ \A g \in DOMAIN task : g < h => task[g] # "pending"
    /\ Cardinality(Running) < max_workers
    /\ task' = [task EXCEPT ![h] = "check"]
    /\ UNCHANGED <<max_workers, task_result, hero_cache, all_heroes, errors, dataset>>
    /\ UNCHANGED OutsideHeroes

(***************************************************************************)
(* process_hero, lines 468-475: the cache lookup.  JSONDecodeError and     *)
(* FileNotFoundError lead to a fresh scrape; any other exception of        *)
(* open() ends the future.                                                 *)
(***************************************************************************)
hero_check(h) ==
    /\ h \in DOMAIN task
    /\ task[h] = "check"
    /\ LET file == hero_cache[Slug(h)]
       IN  CASE file.kind \in {"missing", "corrupt"} ->
                  /\ task' = [task EXCEPT ![h] = "scrape"]
                  /\ UNCHANGED task_result
             [] file.kind = "unreadable" ->
                  /\ task' = [task EXCEPT ![h] = "finished"]
                  /\ task_result' = [task_result EXCEPT ![h] =
                                        [status |-> "raised", hero |-> 0]]
             [] file.kind = "error" ->
                  /\ task' = [task EXCEPT ![h] = "finished"]
                  /\ task_result' = [task_result EXCEPT ![h] =
                                        [status |-> "error", hero |-> 0]]
             [] OTHER ->
                  /\ task' = [task EXCEPT ![h] = "finished"]
                  /\ task_result' = [task_result EXCEPT ![h] =
                                        [status |-> "success", hero |-> file.hero]]
    /\ UNCHANGED <<max_workers, hero_cache, all_heroes, errors, dataset>>
    /\ UNCHANGED OutsideHeroes

(***************************************************************************)
(* scrape_hero_details: the same try / except RequestException /           *)
(* except Exception frame as the page scrapers.                            *)
(***************************************************************************)
scrape_hero_details(event) ==
    CASE event = "request_raised" -> "error"
      [] event = "http_error"     -> "error"
      [] event = "no_element"     -> "error"
      [] event = "parse_raised"   -> "error"
      [] event = "page_ok"        -> "success"

(***************************************************************************)
(* process_hero, lines 478-482: the scrape, and for a success result       *)
(* open(cache_file, 'w'), which either raises or leaves an empty file.     *)
(***************************************************************************)
hero_scrape(h, event) ==
    /\ h \in DOMAIN task
    /\ task[h] = "scrape"
    /\ IF scrape_hero_details(event) = "success"
       THEN \/ /\ hero_cache' = [hero_cache EXCEPT ![Slug(h)] = HeroFile("corrupt", 0)]
               /\ task' = [task EXCEPT ![h] = "write"]
               /\ UNCHANGED task_result
            \/ /\ task' = [task EXCEPT ![h] = "finished"]
               /\ task_result' = [task_result EXCEPT ![h] =
                                     [status |-> "raised", hero |-> 0]]
               /\ UNCHANGED hero_cache
       ELSE /\ task' = [task EXCEPT ![h] = "finished"]
            /\ task_result' = [task_result EXCEPT ![h] = [status |-> "error", hero |-> 0]]
            /\ UNCHANGED hero_cache
    /\ UNCHANGED <<max_workers, all_heroes, errors, dataset>>
    /\ UNCHANGED OutsideHeroes

(***************************************************************************)
(* process_hero, lines 483-485: json.dump, close, return result.  When     *)
(* another future is writing the same file, the bytes of the two dumps may *)
(* mix.                                                                    *)
(***************************************************************************)
hero_write(h) ==
    /\ h \in DOMAIN task
    /\ task[h] = "write"
    /\ \E content \in (IF \E g \in DOMAIN task : g # h /\ Slug(g) = Slug(h) /\ task[g] = "write"
                       THEN {HeroFile("success", h), HeroFile("corrupt", 0)}
                       ELSE {HeroFile("success", h)}) :
          hero_cache' = [hero_cache EXCEPT ![Slug(h)] = content]
    /\ task' = [task EXCEPT ![h] = "finished"]
    /\ task_result' = [task_result EXCEPT ![h] = [status |-> "success", hero |-> h]]
    /\ UNCHANGED <<max_workers, all_heroes, errors, dataset>>
    /\ UNCHANGED OutsideHeroes

(***************************************************************************)
(* Lines 495-515: the list a finished future's outcome goes to.            *)
(* future.result() re-raises what process_hero raised, and the             *)
(* except Exception clause appends to errors.                              *)
(***************************************************************************)
CollectedIntoIgnoringRaised(result) ==
    CASE result.status = "success" -> "heroes"
      [] result.status = "raised"  -> "dropped"
      [] OTHER                     -> "errors"

CollectedInto(result) ==
    CASE result.status = "success" -> "heroes"     \* line 499
      [] result.status = "raised"  -> "errors"     \* line 510
      [] OTHER                     -> "errors"     \* line 502

(***************************************************************************)
(* One turn of `for future in as_completed(future_to_hero)`: any finished  *)
(* future that has not been yielded yet.  An entry of all_heroes is the    *)
(* "hero" value of the result; `of` records the input hero whose future    *)
(* produced it.                                                            *)
(***************************************************************************)
hero_collect(h) ==
    /\ h \in DOMAIN task
    /\ task[h] = "finished"
    /\ task' = [task EXCEPT ![h] = "collected"]
    /\ task_result' = [task_result EXCEPT ![h] = NoResult]
    /\ LET into == CollectedInto(task_result[h])
       IN  /\ all_heroes' = IF into = "heroes"
                            THEN Append(all_heroes, [of |-> h, hero |-> task_result[h].hero])
                            ELSE all_heroes
           /\ errors' = IF into = "errors"
                        THEN Append(errors, [hero |-> h, raised |-> task_result[h].status = "raised"])
                        ELSE errors
    /\ UNCHANGED <<max_workers, hero_cache, dataset>>
    /\ UNCHANGED OutsideHeroes

(***************************************************************************)
(* Lines 518-531: the loop is over and the executor shut down; the dataset *)
(* is built.  "errors" and "error_count" are only set when errors is not   *)
(* empty.                                                                  *)
(***************************************************************************)
hero_dataset ==
    /\ dataset = NoDataset
    /\ \A h \in DOMAIN task : task[h] = "collected"
    /\ dataset' = [status      |-> IF all_heroes # <<>> THEN "success" ELSE "error",
                   hero_count  |-> Len(all_heroes),
                   has_errors  |-> errors # <<>>,
                   error_count |-> IF errors # <<>> THEN Len(errors) ELSE 0]
    /\ UNCHANGED <<max_workers, task, task_result, hero_cache, all_heroes, errors>>
    /\ UNCHANGED OutsideHeroes

\* scrape_all_hero_details(heroes, max_workers = w) with the cache directory in
\* the state files.
HeroesInit(heroes, w, files) ==
    /\ max_workers = w
    /\ task = [h \in DOMAIN heroes |-> "pending"]
    /\ task_result = [h \in DOMAIN heroes |-> NoResult]
    /\ hero_cache = files
    /\ all_heroes = <<>>
    /\ errors = <<>>
    /\ dataset = NoDataset

HeroesIdle == HeroesInit(<<>>, 1, [s \in Slugs |-> HeroFile("missing", 0)])

(***************************************************************************)
(* Part 4.  scrape_heroes_portal of scripts/hero_main.py, lines 229-255:   *)
(* the scraped entries are deduplicated by URL, sorted by name and put in  *)
(* the result.  A name is modelled by its rank in Python's string order, a *)
(* URL by a number.                                                        *)
(***************************************************************************)
PortalNames   == 1..2
PortalUrls    == 1..2
PortalEntries == [name : PortalNames, url : PortalUrls]

RECURSIVE SeqsUpTo(_, _)
SeqsUpTo(S, n) ==
    IF n = 0 THEN {<<>>}
    ELSE LET shorter == SeqsUpTo(S, n - 1)
         IN  shorter \cup {Append(q, x) : q \in {r \in shorter : Len(r) = n - 1}, x \in S}

\* The lists `heroes` the three extraction passes can leave.
ScrapedLists == SeqsUpTo(PortalEntries, MaxScraped)

NoPortalResult == [status |-> "none", hero_count |-> 0, heroes |-> <<>>, warnings |-> <<>>]

(***************************************************************************)
(* heroes_dict = {hero['url']: hero for hero in heroes}, as the list of    *)
(* its values: a dict keeps a key at the position of its first insertion   *)
(* and replaces the value on every later insertion.                        *)
(***************************************************************************)
DictPutKeepFirst(values, hero) ==
    IF \E i \in DOMAIN values : values[i].url = hero.url
    THEN values
    ELSE Append(values, hero)

DictPut(values, hero) ==
    IF \E i \in DOMAIN values : values[i].url = hero.url
    THEN [i \in DOMAIN values |-> IF values[i].url = hero.url THEN hero ELSE values[i]]
    ELSE Append(values, hero)

RECURSIVE heroes_dict(_)
heroes_dict(heroes) ==
    IF heroes = <<>> THEN <<>>
    ELSE DictPut(heroes_dict(SubSeq(heroes, 1, Len(heroes) - 1)), heroes[Len(heroes)])

(***************************************************************************)
(* unique_heroes.sort(key=lambda x: x['name']): list.sort is stable.       *)
(***************************************************************************)
RECURSIVE InsertByName(_, _)
InsertByName(sorted, hero) ==
    IF sorted = <<>> THEN <<hero>>
    ELSE IF sorted[Len(sorted)].name <= hero.name
         THEN Append(sorted, hero)
         ELSE Append(InsertByName(SubSeq(sorted, 1, Len(sorted) - 1), hero),
                     sorted[Len(sorted)])

RECURSIVE SortByName(_)
SortByName(list) ==
    IF list = <<>> THEN <<>>
    ELSE InsertByName(SortByName(SubSeq(list, 1, Len(list) - 1)), list[Len(list)])

(***************************************************************************)
(* Lines 229-255: the result built from the list heroes.  A warning is     *)
(* modelled by the duplicate count its text reports.                       *)
(***************************************************************************)
portal_result_of(heroes) ==
    LET unique_heroes == SortByName(heroes_dict(heroes))
    IN  [status     |-> "success",
         hero_count |-> Len(unique_heroes),
         heroes     |-> unique_heroes,
         warnings   |-> IF Len(heroes) # Len(unique_heroes)
                        THEN <<Len(heroes) - Len(unique_heroes)>>
                        ELSE <<>>]

scrape_heroes_portal ==
    /\ portal_result = NoPortalResult
    /\ portal_result' = portal_result_of(scraped_heroes)
    /\ UNCHANGED scraped_heroes
    /\ UNCHANGED OutsidePortal

PortalInit(heroes) ==
    /\ scraped_heroes = heroes
    /\ portal_result = NoPortalResult

PortalIdle == PortalInit(<<>>)

(***************************************************************************)
(* Part 5.  GraphQLResolver.resolve_optimal_build of src/resolvers.py.     *)
(* Win rates are held in percent; expected_win_rate is the exact rational  *)
(* <<numerator, denominator>> of percents.                                 *)
(***************************************************************************)
\* The item catalogue: win_rate of the hero_items row and cost of the items row
\* of item i.  Items 1, 2, 3 have win rates 0.6, 0.5, 0.4 and costs 1000, 2000,
\* 3000.
ItemIds     == 1..NItems
ItemWinRate(i) == IF i <= 3 THEN 70 - 10 * i ELSE 30 + 5 * ((3 * i) % 8)
_get_item_cost(i) == 1000 * (((i - 1) % 3) + 1)

\* The rows a fetch returns: the rows of any set of items, in item order.
RECURSIVE RowsOf(_, _)
RowsOf(ids, i) ==
    IF i > NItems THEN <<>>
    ELSE (IF i \in ids THEN <<[item_id |-> i, win_rate |-> ItemWinRate(i)]>> ELSE <<>>)
         \o RowsOf(ids, i + 1)

\* constraints: maxCost (0 when the key is absent or its value is 0) and
\* forbiddenItems; forbidden_given says whether the key is there, its value a
\* list (empty when the key is absent).
ConstraintSets ==
    {c \in [maxCost : {0, 1500, 2500}, forbidden_given : BOOLEAN, forbiddenItems : {{}, {1}}] :
        c.forbiddenItems # {} => c.forbidden_given}

NoBuild == [items |-> <<>>, expected_win_rate |-> <<0, 1>>, returned |-> FALSE,
            raised |-> "none"]
\* Line 119: the exception is logged and raised again.
BuildRaised(e) == [items |-> <<>>, expected_win_rate |-> <<0, 1>>, returned |-> FALSE,
                   raised |-> e]

(***************************************************************************)
(* Lines 91-101: the rows that pass the maxCost and forbiddenItems         *)
(* constraints, in the order fetched.                                      *)
(***************************************************************************)
RECURSIVE filtered_items(_, _)
filtered_items(items, c) ==
    IF items = <<>> THEN <<>>
    ELSE LET item == Head(items)
             skip == \/ (c.maxCost # 0 /\ _get_item_cost(item.item_id) > c.maxCost)
                     \/ (c.forbiddenItems # {} /\ item.item_id \in c.forbiddenItems)
         IN  (IF skip THEN <<>> ELSE <<item>>) \o filtered_items(Tail(items), c)

(***************************************************************************)
(* Line 104: filtered_items.sort(key=win_rate, reverse=True), a stable     *)
(* sort in descending order.                                               *)
(***************************************************************************)
RECURSIVE InsertByWinRate(_, _)
InsertByWinRate(sorted, item) ==
    IF sorted = <<>> THEN <<item>>
    ELSE IF sorted[Len(sorted)].win_rate >= item.win_rate
         THEN Append(sorted, item)
         ELSE Append(InsertByWinRate(SubSeq(sorted, 1, Len(sorted) - 1), item),
                     sorted[Len(sorted)])

RECURSIVE SortByWinRate(_)
SortByWinRate(list) ==
    IF list = <<>> THEN <<>>
    ELSE InsertByWinRate(SortByWinRate(SubSeq(list, 1, Len(list) - 1)), list[Len(list)])

Top6(list) == SubSeq(list, 1, IF Len(list) < 6 THEN Len(list) ELSE 6)

RECURSIVE SumWinRate(_)
SumWinRate(list) == IF list = <<>> THEN 0 ELSE Head(list).win_rate + SumWinRate(Tail(list))

(***************************************************************************)
(* Lines 107-113: the result.  The sum of the win rates of the first six   *)
(* sorted rows is divided by the literal 6 whenever a row remains.         *)
(***************************************************************************)
optimal_build(items, c) ==
    LET sorted == SortByWinRate(filtered_items(items, c))
        top    == Top6(sorted)
    IN  [items             |-> [i \in DOMAIN top |-> top[i].item_id],
         expected_win_rate |-> IF sorted # <<>> THEN Rat(SumWinRate(top), 6) ELSE <<0, 1>>,
         returned          |-> TRUE,
         raised            |-> "none"]

(***************************************************************************)
(* resolve_optimal_build: a cached result is returned as it is; otherwise  *)
(* the result is computed, stored in the cache and returned.  Line 76      *)
(* builds the cache key first, with hash(frozenset(constraints.items())):  *)
(* a list among the values is unhashable and the call raises TypeError.    *)
(***************************************************************************)
resolve_optimal_build ==
    /\ build_result = NoBuild
    /\ IF constraints.forbidden_given
       THEN /\ build_result' = BuildRaised("TypeError")
            /\ UNCHANGED build_cache
       ELSE IF build_cache # NoBuild
       THEN /\ build_result' = build_cache
            /\ UNCHANGED build_cache
       ELSE /\ build_result' = optimal_build(hero_items, constraints)
            /\ build_cache' = optimal_build(hero_items, constraints)
    /\ UNCHANGED <<hero_items, constraints>>
    /\ UNCHANGED OutsideBuild

\* The next request for the same hero and constraints.
next_build_request ==
    /\ build_result # NoBuild
    /\ build_result' = NoBuild
    /\ UNCHANGED <<hero_items, constraints, build_cache>>
    /\ UNCHANGED OutsideBuild

BuildInit(items, c) ==
    /\ hero_items = items
    /\ constraints = c
    /\ build_cache = NoBuild
    /\ build_result = NoBuild

BuildIdle == BuildInit(<<>>, [maxCost |-> 0, forbidden_given |-> FALSE, forbiddenItems |-> {}])

(***************************************************************************)
(* Part 6.  AnalyticsEngine.calculate_patch_impact of schema/models.py     *)
(* (the revision that is not commented out).                               *)
(***************************************************************************)
StatRows  == {r \in [wins : 0..MaxMatches, matches : 0..MaxMatches] : r.wins <= r.matches}
StatLists == SeqsUpTo(StatRows, MaxPatchRows)

\* Two facts the source does not fix.  The query selects the columns `win` and
\* `matches` while the code reads r['wins']: has_wins_key says whether a fetched
\* row can be read under 'wins'.  The code calls stats.proportions_ztest on
\* scipy.stats: has_ztest says whether that attribute exists.
PatchEnvs == [has_wins_key : BOOLEAN, has_ztest : BOOLEAN]

NoReport      == [kind |-> "none", exception |-> "none", win_rate_change |-> <<0, 1>>]
Raised(e)     == [kind |-> "raised", exception |-> e, win_rate_change |-> <<0, 1>>]
NeutralReport == [kind |-> "neutral", exception |-> "none", win_rate_change |-> <<0, 1>>]

RECURSIVE SumField(_, _)
SumField(rows, wins) ==
    IF rows = <<>> THEN 0
    ELSE (IF wins THEN Head(rows).wins ELSE Head(rows).matches) + SumField(Tail(rows), wins)

(***************************************************************************)
(* Lines 127-148, in evaluation order: the four sums, the z-test, then the *)
(* dict display, whose first division by a total is                        *)
(* target_wins/target_total.  No statement tests a total against zero.     *)
(***************************************************************************)
patch_impact(base, target, env) ==
    LET base_wins    == SumField(base, TRUE)
        base_total   == SumField(base, FALSE)
        target_wins  == SumField(target, TRUE)
        target_total == SumField(target, FALSE)
    IN  IF (base # <<>> \/ target # <<>>) /\ ~env.has_wins_key
        THEN Raised("KeyError")
        ELSE IF ~env.has_ztest
        THEN Raised("AttributeError")
        ELSE IF target_total = 0 \/ base_total = 0
        THEN Raised("ZeroDivisionError")
        ELSE [kind |-> "computed", exception |-> "none",
              win_rate_change |-> Rat(target_wins * base_total - base_wins * target_total,
                                      target_total * base_total)]

calculate_patch_impact ==
    /\ patch_report = NoReport
    /\ patch_report' = patch_impact(base_data, target_data, patch_env)
    /\ UNCHANGED <<base_data, target_data, patch_env>>
    /\ UNCHANGED OutsidePatch

PatchInit(base, target, env) ==
    /\ base_data = base
    /\ target_data = target
    /\ patch_env = env
    /\ patch_report = NoReport

PatchIdle == PatchInit(<<>>, <<>>, [has_wins_key |-> TRUE, has_ztest |-> TRUE])

(***************************************************************************)
(* Part 7.  STRATZ_Neo4j_Importer.import_hero_meta_to_neo4j of             *)
(* graph/neo_query.py.  The graph is a list of nodes and a set of          *)
(* relationships <<type, from, to>> between node positions; each Cypher    *)
(* statement is an operator from graph to graph.                           *)
(***************************************************************************)
GraphHeroIds  == 1..2
PatchVersions == 1..2
Timestamps    == 1..2
SnapshotItems == 1..2

\* A fetched HeroMetaSnapshot: its patch version, its timestamp, and the item of
\* its item build.  Every snapshot has one position entry, one item build with
\* one synergy entry, and one skill entry.
Snapshots == [patch_version : PatchVersions, timestamp : Timestamps, item_id : SnapshotItems]

\* A node: its label, the property later statements match on (Hero.id,
\* Patch.version, MetaSnapshot.timestamp, ItemBuild.item_id; 0 for the labels no
\* statement matches on), and as history the run and the snapshot of that run
\* whose statement created it.
Node(label, key, run, snap) == [label |-> label, key |-> key, run |-> run, snap |-> snap]

EmptyGraph == [nodes |-> <<>>, rels |-> {}]

AddNode(G, n)       == [G EXCEPT !.nodes = Append(@, n)]
AddRel(G, ty, a, b) == [G EXCEPT !.rels = @ \cup {<<ty, a, b>>}]
Matching(G, label, key) ==
    {i \in DOMAIN G.nodes : G.nodes[i].label = label /\ G.nodes[i].key = key}

\* MERGE (n:label {property: key}): creates the node only when none matches.
MergeNode(G, label, key, run, snap) ==
    IF Matching(G, label, key) # {} THEN G ELSE AddNode(G, Node(label, key, run, snap))

(***************************************************************************)
(* MATCH (m:label {property: key}) CREATE (n) MERGE (m)-[:ty]->(n): the    *)
(* CREATE and the MERGE run once for every row of the MATCH, that is once  *)
(* for every node that matches.                                            *)
(***************************************************************************)
RECURSIVE CreateLinked(_, _, _, _)
CreateLinked(G, rows, n, ty) ==
    IF rows = {} THEN G
    ELSE LET m == CHOOSE i \in rows : \A j \in rows : i <= j
         IN  CreateLinked(AddRel(AddNode(G, n), ty, m, Len(G.nodes) + 1),
                          rows \ {m}, n, ty)

(***************************************************************************)
(* Lines 198-213: MERGE (p:Patch {version}), then                          *)
(* MERGE (h:Hero {id})-[:META_IN_PATCH]->(p) with h not bound before:      *)
(* when no Hero node with this id has a META_IN_PATCH relationship to p,   *)
(* the whole pattern is created, a new Hero node included.  Then           *)
(* CREATE (ms:MetaSnapshot) and the two relationship merges.               *)
(***************************************************************************)
SnapshotStatement(G, hero_id, s, run, snap) ==
    LET G1 == MergeNode(G, "Patch", s.patch_version, run, snap)
        p  == CHOOSE i \in Matching(G1, "Patch", s.patch_version) : TRUE
        linked == {i \in Matching(G1, "Hero", hero_id) : <<"META_IN_PATCH", i, p>> \in G1.rels}
        G2 == IF linked = {}
              THEN AddRel(AddNode(G1, Node("Hero", hero_id, run, snap)),
                          "META_IN_PATCH", Len(G1.nodes) + 1, p)
              ELSE G1
        h  == IF linked = {} THEN Len(G1.nodes) + 1 ELSE CHOOSE i \in linked : TRUE
        ms == Len(G2.nodes) + 1
        G3 == AddNode(G2, Node("MetaSnapshot", s.timestamp, run, snap))
    IN  AddRel(AddRel(G3, "HAS_META_SNAPSHOT", h, ms), "BELONGS_TO_PATCH", ms, p)

\* Lines 216-235, 238-255, 258-271, 274-287.
PositionStatement(G, s, run, snap) ==
    CreateLinked(G, Matching(G, "MetaSnapshot", s.timestamp),
                 Node("PositionMetrics", 0, run, snap), "HAS_POSITION_METRICS")

ItemBuildStatement(G, s, run, snap) ==
    CreateLinked(G, Matching(G, "MetaSnapshot", s.timestamp),
                 Node("ItemBuild", s.item_id, run, snap), "HAS_ITEM_BUILD")

SynergyStatement(G, s, run, snap) ==
    CreateLinked(G, Matching(G, "ItemBuild", s.item_id),
                 Node("ItemSynergy", 0, run, snap), "HAS_SYNERGY")

SkillStatement(G, s, run, snap) ==
    CreateLinked(G, Matching(G, "MetaSnapshot", s.timestamp),
                 Node("SkillPriority", 0, run, snap), "HAS_SKILL_PRIORITY")

(***************************************************************************)
(* Lines 186-193: the timeline is fetched, a session opened and            *)
(* MERGE (h:Hero {id: $hero_id}) run.                                      *)
(***************************************************************************)
import_hero_meta_to_neo4j(hero_id) ==
    /\ import_pc = "idle"
    /\ import_no < MaxImports
    /\ import_pc' = "snapshots"
    /\ import_hero' = hero_id
    /\ import_no' = import_no + 1
    /\ snap_no' = 0
    /\ heroes_imported' = heroes_imported \cup {hero_id}
    /\ graph' = MergeNode(graph, "Hero", hero_id, import_no + 1, 0)
    /\ UNCHANGED import_budget
    /\ UNCHANGED OutsideImport

(***************************************************************************)
(* Lines 196-287: one turn of `for snapshot in meta_snapshots`, with its   *)
(* five statements in the order the code runs them.                        *)
(***************************************************************************)
import_snapshot(s) ==
    /\ import_pc = "snapshots"
    /\ import_budget > 0
    /\ import_budget' = import_budget - 1
    /\ snap_no' = snap_no + 1
    /\ LET G1 == SnapshotStatement(graph, import_hero, s, import_no, snap_no + 1)
           G2 == PositionStatement(G1, s, import_no, snap_no + 1)
           G3 == ItemBuildStatement(G2, s, import_no, snap_no + 1)
           G4 == SynergyStatement(G3, s, import_no, snap_no + 1)
       IN  graph' = SkillStatement(G4, s, import_no, snap_no + 1)
    /\ UNCHANGED <<import_pc, import_hero, import_no, heroes_imported>>
    /\ UNCHANGED OutsideImport

\* Line 289: the loop is over.
import_done ==
    /\ import_pc = "snapshots"
    /\ import_pc' = "idle"
    /\ UNCHANGED <<graph, import_hero, import_no, snap_no, heroes_imported, import_budget>>
    /\ UNCHANGED OutsideImport

ImportInit(b) ==
    /\ graph = EmptyGraph
    /\ import_pc = "idle"
    /\ import_hero = 0
    /\ import_no = 0
    /\ snap_no = 0
    /\ heroes_imported = {}
    /\ import_budget = b

ImportIdle == ImportInit(0)

(***************************************************************************)
(* Part 8.  get_lisp_environment and its caller classify_match_strategy    *)
(* of src/core.py.  The handler is a coroutine: it can be suspended at     *)
(* `await analytics_engine.get_match_data(...)` only, so everything from   *)
(* get_lisp_environment() to the return runs without interleaving.         *)
(***************************************************************************)
Requests == 1..NRequests

NoLisp    == [set |-> FALSE, loaded |-> FALSE]
NoEnvCall == [outcome |-> "none", loaded |-> FALSE, first |-> FALSE]

\* What happens inside a get_lisp_environment call that finds no attribute:
\* Lisp() raises; or the interpreter is created and open() of the rule file
\* raises, or eval of its text raises, or the file is loaded.
LoadOutcomes == {"lisp_raised", "open_raised", "eval_raised", "loaded"}

(***************************************************************************)
(* get_lisp_environment, lines 67-72.  The attribute is assigned before    *)
(* the rule file is opened, and nothing unsets it when the load raises.    *)
(***************************************************************************)
LispAfter(env, load) ==
    IF env.set THEN env
    ELSE CASE load = "lisp_raised" -> env
           [] load = "loaded"      -> [set |-> TRUE, loaded |-> TRUE]
           [] OTHER                -> [set |-> TRUE, loaded |-> FALSE]

LispCallOutcome(env, load) ==
    IF env.set \/ load = "loaded" THEN "returned" ELSE "raised"

\* A strategy-classification request arrives; its handler awaits the match data.
classify_request(r) ==
    /\ request[r] = "idle"
    /\ lisp_calls > 0
    /\ request' = [request EXCEPT ![r] = "awaiting"]
    /\ UNCHANGED <<lisp_env, lisp_created, last_env_call, lisp_calls>>
    /\ UNCHANGED OutsideLisp

\* Lines 82, 101-103: get_match_data raises; the handler answers 500.
match_data_raised(r) ==
    /\ request[r] = "awaiting"
    /\ request' = [request EXCEPT ![r] = "answered_500"]
    /\ UNCHANGED <<lisp_env, lisp_created, last_env_call, lisp_calls>>
    /\ UNCHANGED OutsideLisp

(***************************************************************************)
(* Lines 85-103: the match data is there; get_lisp_environment() is        *)
(* called, then classify-strategy evaluated in the interpreter it          *)
(* returned, which fails when the rule file has not been loaded into it.   *)
(***************************************************************************)
classify_match_strategy(r, load) ==
    /\ request[r] = "awaiting"
    /\ lisp_calls > 0
    /\ lisp_calls' = lisp_calls - 1
    /\ lisp_env' = LispAfter(lisp_env, load)
    /\ lisp_created' = IF ~lisp_env.set /\ load # "lisp_raised"
                       THEN lisp_created + 1 ELSE lisp_created
    /\ last_env_call' = [outcome |-> LispCallOutcome(lisp_env, load),
                         loaded  |-> LispAfter(lisp_env, load).loaded,
                         first   |-> ~lisp_env.set]
    /\ request' = [request EXCEPT ![r] =
                      IF LispCallOutcome(lisp_env, load) = "returned"
                         /\ LispAfter(lisp_env, load).loaded
                      THEN "answered_200" ELSE "answered_500"]
    /\ UNCHANGED OutsideLisp

\* The response has been sent.
classify_answered(r) ==
    /\ request[r] \in {"answered_200", "answered_500"}
    /\ request' = [request EXCEPT ![r] = "idle"]
    /\ UNCHANGED <<lisp_env, lisp_created, last_env_call, lisp_calls>>
    /\ UNCHANGED OutsideLisp

LispInit(calls) ==
    /\ lisp_env = NoLisp
    /\ lisp_created = 0
    /\ last_env_call = NoEnvCall
    /\ request = [r \in Requests |-> "idle"]
    /\ lisp_calls = calls

LispIdle == LispInit(0)

(***************************************************************************)
(* Part 9.  The module-level statements of src/sql_chain.py, which run     *)
(* once, in source order, when the module is imported.                     *)
(***************************************************************************)
\* The process environment: whether SQLITE_URL is set; ANTHROPIC_API_KEY unset,
\* set to the empty string, or set; and whether the sentence-transformers model
\* is already in the local cache (otherwise constructing the embeddings
\* downloads it).
SqlEnvs == [sqlite_url : BOOLEAN, api_key : {"unset", "empty", "set"}, model_cached : BOOLEAN]

\* `if not ANTHROPIC_API_KEY`: os.getenv gives None when unset.
KeyMissing(env) == env.api_key \in {"unset", "empty"}

\* A constructor either returns, and the object exists, or raises, and the
\* import ends with that exception.
Construct(at, name, next, raises) ==
    /\ sql_pc = at
    /\ IF raises
       THEN /\ sql_pc' = "failed"
            /\ sql_error' = "constructor_error"
            /\ UNCHANGED sql_created
       ELSE /\ sql_pc' = next
            /\ sql_created' = sql_created \cup {name}
            /\ UNCHANGED sql_error

\* Lines 13-14: SQLITE_URL is read and create_engine called.
create_engine ==
    /\ \E raises \in BOOLEAN : Construct("engine", "engine", "db", raises /\ sql_env.sqlite_url)
    /\ UNCHANGED <<sql_env, network_used>>
    /\ UNCHANGED OutsideSql

\* Line 17: SQLDatabase(engine).
wrap_database ==
    /\ \E raises \in BOOLEAN : Construct("db", "db", "embeddings", raises)
    /\ UNCHANGED <<sql_env, network_used>>
    /\ UNCHANGED OutsideSql

\* Lines 20-23: HuggingFaceEmbeddings(...) loads the model, from the hub when it
\* is not cached.
build_embeddings ==
    /\ \E raises \in BOOLEAN : Construct("embeddings", "embeddings", "key_check", raises)
    /\ network_used' = (network_used \/ ~sql_env.model_cached)
    /\ UNCHANGED sql_env
    /\ UNCHANGED OutsideSql

\* Lines 26-29: the key is read and checked.
check_api_key ==
    /\ sql_pc = "key_check"
    /\ IF KeyMissing(sql_env)
       THEN /\ sql_pc' = "failed"
            /\ sql_error' = "ValueError"
       ELSE /\ sql_pc' = "llm"
            /\ UNCHANGED sql_error
    /\ UNCHANGED <<sql_env, sql_created, network_used>>
    /\ UNCHANGED OutsideSql

\* Lines 31-36: ChatAnthropic(...).
build_llm ==
    /\ \E raises \in BOOLEAN : Construct("llm", "llm", "db_chain", raises)
    /\ UNCHANGED <<sql_env, network_used>>
    /\ UNCHANGED OutsideSql

\* Lines 39-43: SQLDatabaseChain.from_llm(...).
build_db_chain ==
    /\ \E raises \in BOOLEAN : Construct("db_chain", "db_chain", "imported", raises)
    /\ UNCHANGED <<sql_env, network_used>>
    /\ UNCHANGED OutsideSql

SqlInit(env) ==
    /\ sql_env = env
    /\ sql_pc = "engine"
    /\ sql_created = {}
    /\ sql_error = "none"
    /\ network_used = FALSE

\* The module is not imported.
SqlIdle ==
    /\ sql_env = [sqlite_url |-> FALSE, api_key |-> "set", model_cached |-> TRUE]
    /\ sql_pc = "not_imported"
    /\ sql_created = {}
    /\ sql_error = "none"
    /\ network_used = FALSE

(***************************************************************************)
(* Part 10.  DotaMatch.to_graph_nodes, DotaMatch.to_graph_edges and        *)
(* export_to_graph(session, 'dict') of scripts/transform.py.  A node key   *)
(* such as "team_7" is modelled as <<"team", 7>>.                          *)
(***************************************************************************)
\* The value of a nullable Integer column: NULL (None in Python) or a number.
Null      == 0 - 1
TeamIds   == {Null, 0, 1, 2}
SeriesIds == {Null, 0, 1}
LeagueIds == {Null, 0, 1}

\* The rows of the table: row i has the primary key i.
MatchRow(i) == [id : {i}, radiant_team_id : TeamIds, dire_team_id : TeamIds,
                series_id : SeriesIds, league_id : LeagueIds, did_radiant_win : BOOLEAN]

RECURSIVE Tables(_)
Tables(n) ==
    IF n = 0 THEN {<<>>}
    ELSE Tables(n - 1) \cup
         {Append(t, row) : t \in {u \in Tables(n - 1) : Len(u) = n - 1}, row \in MatchRow(n)}

\* `if self.radiant_team_id:` and the like: None and 0 are both false.
Truthy(x) == x # Null /\ x # 0

(***************************************************************************)
(* DotaMatch.to_graph_nodes: the keys of the dict it returns.              *)
(***************************************************************************)
to_graph_nodes(m) ==
    {<<"match", m.id>>}
      \cup (IF Truthy(m.radiant_team_id) THEN {<<"team", m.radiant_team_id>>} ELSE {})
      \cup (IF Truthy(m.dire_team_id) THEN {<<"team", m.dire_team_id>>} ELSE {})
      \cup (IF Truthy(m.league_id) THEN {<<"league", m.league_id>>} ELSE {})
      \cup (IF Truthy(m.series_id) THEN {<<"series", m.series_id>>} ELSE {})

(***************************************************************************)
(* DotaMatch.to_graph_edges: the list it returns.                          *)
(***************************************************************************)
Edge(source, target, relationship, side, result) ==
    [source |-> source, target |-> target, relationship |-> relationship,
     side |-> side, result |-> result]

radiant_result(m) == IF m.did_radiant_win THEN "won" ELSE "lost"

dire_result_as_radiant(m) == IF m.did_radiant_win THEN "won" ELSE "lost"

dire_result(m) == IF m.did_radiant_win THEN "lost" ELSE "won"

HasSeriesOnly(m) == Truthy(m.series_id)

\* Line 255: if self.series_id and self.league_id.
HasSeriesAndLeague(m) == Truthy(m.series_id) /\ Truthy(m.league_id)

to_graph_edges(m) ==
    (IF Truthy(m.radiant_team_id)
     THEN <<Edge(<<"team", m.radiant_team_id>>, <<"match", m.id>>, "PARTICIPATED_IN",
                 "radiant", radiant_result(m))>>
     ELSE <<>>)
    \o (IF Truthy(m.dire_team_id)
        THEN <<Edge(<<"team", m.dire_team_id>>, <<"match", m.id>>, "PARTICIPATED_IN",
                    "dire", dire_result(m))>>
        ELSE <<>>)
    \o (IF Truthy(m.series_id)
        THEN <<Edge(<<"match", m.id>>, <<"series", m.series_id>>, "PART_OF", "none", "none")>>
        ELSE <<>>)
    \o (IF HasSeriesAndLeague(m)
        THEN <<Edge(<<"series", m.series_id>>, <<"league", m.league_id>>, "PART_OF",
                    "none", "none")>>
        ELSE <<>>)

\* Lines 387-393: nodes = {}, edges = [], matches = session.query(DotaMatch).all().
export_to_graph ==
    /\ export_pc = "idle"
    /\ export_pc' = "loop"
    /\ export_next' = 1
    /\ export_nodes' = {}
    /\ export_edges' = <<>>
    /\ UNCHANGED db_matches
    /\ UNCHANGED OutsideExport

\* Lines 396-401: one turn of `for match in matches`.
export_match ==
    /\ export_pc = "loop"
    /\ export_next <= Len(db_matches)
    /\ export_nodes' = export_nodes \cup to_graph_nodes(db_matches[export_next])
    /\ export_edges' = export_edges \o to_graph_edges(db_matches[export_next])
    /\ export_next' = export_next + 1
    /\ UNCHANGED <<db_matches, export_pc>>
    /\ UNCHANGED OutsideExport

\* Lines 403-406: the loop is over, the dict is returned.
export_return ==
    /\ export_pc = "loop"
    /\ export_next > Len(db_matches)
    /\ export_pc' = "returned"
    /\ UNCHANGED <<db_matches, export_next, export_nodes, export_edges>>
    /\ UNCHANGED OutsideExport

ExportInit(table) ==
    /\ db_matches = table
    /\ export_pc = "idle"
    /\ export_next = 1
    /\ export_nodes = {}
    /\ export_edges = <<>>

ExportIdle == ExportInit(<<>>)

(***************************************************************************)
(* Part 11.  DotaMatch.decode_tower_status of scripts/transform.py.        *)
(***************************************************************************)
\* Python's x & y on integers >= 0, bit by bit.
RECURSIVE BitAnd(_, _)
BitAnd(x, y) ==
    IF x = 0 \/ y = 0 THEN 0
    ELSE (IF x % 2 = 1 /\ y % 2 = 1 THEN 1 ELSE 0) + 2 * BitAnd(x \div 2, y \div 2)

\* Python's x << n.
ShlOneTooFar(x, n) == x * 2 ^ (n + 1)

Shl(x, n) == x * 2 ^ n

\* Python's bool(x) of an integer.
bool(x) == x # 0

StatusValues == 0 .. (2 ^ StatusBits - 1)
DireStatusValues == {0, 1, 1536}

NoTowers == [tier1_bot |-> FALSE, tier2_bot |-> FALSE, tier3_bot |-> FALSE,
             tier1_mid |-> FALSE, tier2_mid |-> FALSE, tier3_mid |-> FALSE,
             tier1_top |-> FALSE, tier2_top |-> FALSE, tier3_top |-> FALSE,
             tier4_1 |-> FALSE, tier4_2 |-> FALSE]

\* Lines 110-122: the dict towers.
towers_of(status_value) ==
    [tier1_bot |-> bool(BitAnd(status_value, 1)),
     tier2_bot |-> bool(BitAnd(status_value, Shl(1, 1))),
     tier3_bot |-> bool(BitAnd(status_value, Shl(1, 2))),
     tier1_mid |-> bool(BitAnd(status_value, Shl(1, 3))),
     tier2_mid |-> bool(BitAnd(status_value, Shl(1, 4))),
     tier3_mid |-> bool(BitAnd(status_value, Shl(1, 5))),
     tier1_top |-> bool(BitAnd(status_value, Shl(1, 6))),
     tier2_top |-> bool(BitAnd(status_value, Shl(1, 7))),
     tier3_top |-> bool(BitAnd(status_value, Shl(1, 8))),
     tier4_1   |-> bool(BitAnd(status_value, Shl(1, 9))),
     tier4_2   |-> bool(BitAnd(status_value, Shl(1, 10)))]

decode_tower_status(is_radiant) ==
    /\ towers' = towers_of(IF is_radiant THEN tower_status_radiant ELSE tower_status_dire)
    /\ decoded_side' = (IF is_radiant THEN "radiant" ELSE "dire")
    /\ UNCHANGED <<tower_status_radiant, tower_status_dire>>
    /\ UNCHANGED OutsideTowers

TowersInit(radiant, dire) ==
    /\ tower_status_radiant = radiant
    /\ tower_status_dire = dire
    /\ decoded_side = "none"
    /\ towers = NoTowers

TowersIdle == TowersInit(0, 0)

(***************************************************************************)
(* Part 12.  AdvancedSchemaValidator.validate_type_compatibility of        *)
(* graph/validation.py.  A parsed schema file is the dict its parser       *)
(* returns: per type name, whether the file defines it and with which      *)
(* fields.  A Python file is given by that dict (the annotated assignments *)
(* of its classes), a GraphQL file by its type declarations, which         *)
(* _advanced_graphql_type_parsing turns into the dict.  The dicts are      *)
(* walked in the order of TypeOrder and FieldOrder; the insertion order of *)
(* a dict decides the order of the issues only.                            *)
(***************************************************************************)
TypeOrder  == <<"Hero", "Item">>
FieldOrder == <<"id", "name">>
TypeNames  == {TypeOrder[i] : i \in DOMAIN TypeOrder}
FieldNames == {FieldOrder[i] : i \in DOMAIN FieldOrder}

Undefined  == [defined |-> FALSE, fields |-> {}]
TypeDefs   == {Undefined} \cup [defined : {TRUE}, fields : SUBSET FieldNames]
ParsedFiles == [TypeNames -> TypeDefs]
EmptyTypes == [t \in TypeNames |-> Undefined]
MaxGraphqlPaths == 1

\* A type of a GraphQL file: `type T {...}` or `type T implements Node {...}`,
\* with the fields `f: X`; with_args are the fields written `f(id: ID): X`.
NoDeclaration == [defined |-> FALSE, implements |-> FALSE, fields |-> {}, with_args |-> {}]
Declarations ==
    {NoDeclaration} \cup
    {d \in [defined : {TRUE}, implements : BOOLEAN, fields : SUBSET FieldNames,
            with_args : SUBSET {"name"}] : d.with_args \subseteq d.fields}
GraphqlFiles == [TypeNames -> Declarations]

RECURSIVE ListsOf(_, _)
ListsOf(files, n) ==
    IF n = 0 THEN {<<>>}
    ELSE ListsOf(files, n - 1) \cup
         {Append(l, f) : l \in {k \in ListsOf(files, n - 1) : Len(k) = n - 1}, f \in files}

\* Lines 160-192.  type_pattern `type\s+(\w+)\s*{([^}]*)}` matches no declaration
\* with `implements`; field_pattern `\s*(\w+):\s*([^!,\n]+)(!|\[.*?\])?` matches a
\* word followed by a colon, which in `name(id: ID): X` is the argument id.
_advanced_graphql_type_parsing(file) ==
    [t \in TypeNames |->
        IF ~file[t].defined \/ file[t].implements THEN Undefined
        ELSE [defined |-> TRUE,
              fields |-> (file[t].fields \ file[t].with_args)
                           \cup (IF file[t].with_args # {} THEN {"id"} ELSE {})]]

DictUpdate(old, new) ==
    [t \in TypeNames |-> IF new[t].defined THEN new[t] ELSE old[t]]

\* Lines 204-210: python_types / graphql_types after the loop over the paths.
RECURSIVE Aggregate(_)
Aggregate(files) ==
    IF files = <<>> THEN EmptyTypes
    ELSE DictUpdate(Aggregate(SubSeq(files, 1, Len(files) - 1)), files[Len(files)])

graphql_types_of(files) ==
    Aggregate([i \in DOMAIN files |-> _advanced_graphql_type_parsing(files[i])])

ValidationIssue(message, severity, location, details, field_name) ==
    [message |-> message, severity |-> severity, location |-> location,
     details |-> details, field_name |-> field_name]

\* Lines 214-219.
TypeMissingIssue(type_name) ==
    ValidationIssue(<<"Type missing in GraphQL schema", type_name, "none">>, "WARNING",
                    "Python Schema", {"python_type"}, "none")

\* Lines 226-234.
FieldMissingIssue(field_name, type_name) ==
    ValidationIssue(<<"Field missing in GraphQL type", type_name, field_name>>, "WARNING",
                    "Python Schema", {"field_name", "python_field_type"}, field_name)

\* Lines 224-234: the issues of the fields i.. of one shared type.
RECURSIVE FieldIssues(_, _, _, _)
FieldIssues(type_name, python_def, graphql_def, i) ==
    IF i > Len(FieldOrder) THEN <<>>
    ELSE (IF FieldOrder[i] \in python_def.fields /\ FieldOrder[i] \notin graphql_def.fields
          THEN <<FieldMissingIssue(FieldOrder[i], type_name)>>
          ELSE <<>>)
         \o FieldIssues(type_name, python_def, graphql_def, i + 1)

\* Lines 213-235: the issues of the types i.. of python_types.
RECURSIVE TypeIssues(_, _, _)
TypeIssues(python_types, graphql_types, i) ==
    IF i > Len(TypeOrder) THEN <<>>
    ELSE LET type_name == TypeOrder[i]
         IN  (IF ~python_types[type_name].defined THEN <<>>
              ELSE IF ~graphql_types[type_name].defined
                   THEN <<TypeMissingIssue(type_name)>>
                   ELSE FieldIssues(type_name, python_types[type_name],
                                    graphql_types[type_name], 1))
             \o TypeIssues(python_types, graphql_types, i + 1)

validate_type_compatibility ==
    /\ ~validated
    /\ validated' = TRUE
    /\ issues' = TypeIssues(Aggregate(python_schemas), graphql_types_of(graphql_schemas), 1)
    /\ UNCHANGED <<python_schemas, graphql_schemas>>
    /\ UNCHANGED OutsideSchema

SchemaInit(python, graphql) ==
    /\ python_schemas = python
    /\ graphql_schemas = graphql
    /\ validated = FALSE
    /\ issues = <<>>

SchemaIdle == SchemaInit(<<>>, <<>>)

(***************************************************************************)
(* Part 13.  The data acquisition stage of test-cases/query.py: the query  *)
(* for match_players_data and the loop that fills role_data, hero_data and *)
(* player_hero_data.  A row's match id and start time are its position in  *)
(* the table, the role "NULL" stands for SQL NULL, and the hero level is   *)
(* Null or a number.                                                       *)
(***************************************************************************)
PlayerRoles == {"NULL", "core", "support"}
HeroLevels  == {Null, 0, 3}
PlayerRow(i) == [match_id : {i}, steam_account_id : {7}, hero_id : {1, 2},
                 role : PlayerRoles, dota_plus_hero_level : HeroLevels,
                 kills : {4}, start_date_time : {i}]

RECURSIVE PlayerTables(_)
PlayerTables(n) ==
    IF n = 0 THEN {<<>>}
    ELSE PlayerTables(n - 1) \cup
         {Append(t, row) : t \in {u \in PlayerTables(n - 1) : Len(u) = n - 1},
                           row \in PlayerRow(n)}

\* Lines 197-202: role IS NOT NULL and dota_plus_hero_level IS NOT NULL.
InQuery(row) == row.role # "NULL" /\ row.dota_plus_hero_level # Null

RECURSIVE SelectRows(_)
SelectRows(rows) ==
    IF rows = <<>> THEN <<>>
    ELSE (IF InQuery(Head(rows)) THEN <<Head(rows)>> ELSE <<>>) \o SelectRows(Tail(rows))

\* Line 162: the distinct roles that are not NULL.
DistinctRoles(rows) == {rows[i].role : i \in DOMAIN rows} \ {"NULL"}

\* calculate_impact_score(match, is_tuple=True): a number computed from the
\* performance columns of the row, here from its kills.
calculate_impact_score(row) == row.kills + 1

\* Line 219: all([match_id, player_id, hero_id, role, hero_level]); None, 0 and
\* the empty string are false.
HasCriticalData(row) ==
    /\ Truthy(row.match_id)
    /\ Truthy(row.steam_account_id)
    /\ Truthy(row.hero_id)
    /\ row.role # "NULL"
    /\ Truthy(row.dota_plus_hero_level)

\* d[key].append(entry), with d[key] = [] first when the key is new.
AppendUnder(d, key, entry) ==
    IF key \in DOMAIN d
    THEN [d EXCEPT ![key] = Append(@, entry)]
    ELSE [k \in DOMAIN d \cup {key} |-> IF k = key THEN <<entry>> ELSE d[k]]

\* Lines 176-210: the query, and the three empty datasets.
acq_query ==
    /\ acq_pc = "start"
    /\ match_players_data' = SelectRows(match_players)
    /\ role_data' = [r \in DistinctRoles(match_players) |-> <<>>]
    /\ hero_data' = <<>>
    /\ player_hero_data' = <<>>
    /\ acq_next' = 1
    /\ acq_pc' = "loop"
    /\ UNCHANGED match_players
    /\ UNCHANGED OutsideAcq

\* Lines 212-255: one turn of `for match in match_players_data`.
acq_row ==
    /\ acq_pc = "loop"
    /\ acq_next <= Len(match_players_data)
    /\ LET match == match_players_data[acq_next]
           hero_level == match.dota_plus_hero_level
           impact_score == calculate_impact_score(match)
       IN  IF ~HasCriticalData(match)
           THEN UNCHANGED <<role_data, hero_data, player_hero_data>>
           ELSE /\ role_data' = IF match.role \in DOMAIN role_data
                                THEN [role_data EXCEPT ![match.role] =
                                          Append(@, <<hero_level, impact_score>>)]
                                ELSE role_data
                /\ hero_data' = AppendUnder(hero_data, match.hero_id,
                                            <<hero_level, impact_score>>)
                /\ player_hero_data' =
                       AppendUnder(player_hero_data, <<match.steam_account_id, match.hero_id>>,
                                   <<match.start_date_time, hero_level, impact_score,
                                     match.role>>)
    /\ acq_next' = acq_next + 1
    /\ UNCHANGED <<match_players, match_players_data, acq_pc>>
    /\ UNCHANGED OutsideAcq

\* The loop is over.
acq_done ==
    /\ acq_pc = "loop"
    /\ acq_next > Len(match_players_data)
    /\ acq_pc' = "done"
    /\ UNCHANGED <<match_players, match_players_data, acq_next, role_data, hero_data,
                   player_hero_data>>
    /\ UNCHANGED OutsideAcq

AcqInit(table) ==
    /\ match_players = table
    /\ match_players_data = <<>>
    /\ acq_pc = "start"
    /\ acq_next = 1
    /\ role_data = <<>>
    /\ hero_data = <<>>
    /\ player_hero_data = <<>>

AcqIdle == AcqInit(<<>>)

\* What the tool variables hold in the specifications of the wiki client and
\* of the page scrapers.
ToolsIdle ==
    /\ HeroesIdle
    /\ PortalIdle
    /\ BuildIdle
    /\ PatchIdle
    /\ ImportIdle
    /\ LispIdle
    /\ SqlIdle
    /\ ExportIdle
    /\ TowersIdle
    /\ SchemaIdle
    /\ AcqIdle

(***************************************************************************)
(* Initial states.                                                         *)
(***************************************************************************)
RequestInit(b) ==
    /\ rate_limit_lock = 0
    /\ pc = [t \in Threads |-> "idle"]
    /\ waited = [t \in Threads |-> FALSE]
    /\ req_kind = [t \in Threads |-> "api"]
    /\ response = [t \in Threads |-> "none"]
    /\ budget = b

ClientInit(expiry) ==
    /\ api_mode = TRUE
    /\ api_failure_count = 0
    /\ cache_expiry = expiry
    /\ cache = [p \in CachePaths |-> NoFile]
    /\ now = 0
    /\ lookup = NoLookup
    /\ params = [cont |-> 0, ext |-> FALSE]
    /\ depth = 0
    /\ exc = "none"
    /\ get_result = 0
    /\ call_requests = 0
    /\ call_increments = 0
    /\ gen = "none"
    /\ fallback = FALSE
    /\ yielded = <<>>
    /\ page_url = 0
    /\ visited = {}

\* What the wiki client variables hold in the specifications of the other parts.
WikiIdle ==
    /\ RateLimiterInit(<<2, 1>>, <<0, 0>>)
    /\ RequestInit(0)
    /\ ClientInit(0)

(***************************************************************************)
(* The sequential specification: one thread, as in main(), runs            *)
(* get_all_pages() again and again on one client.                          *)
(***************************************************************************)
Init ==
    /\ \E r \in RateLimits : RateLimiterInit(r, <<0, 0>>)
    /\ RequestInit(MaxRequests)
    /\ \E e \in CacheExpiries : ClientInit(e)
    /\ ScrapeIdle
    /\ ToolsIdle

Next ==
    \/ get_all_pages(MainThread)
    \/ _get_lookup(MainThread)
    \/ request_enter(MainThread)
    \/ wait_enter(MainThread)
    \/ wait_exit(MainThread)
    \/ session_request(MainThread)
    \/ request_success(MainThread)
    \/ request_error(MainThread)
    \/ _get_response(MainThread)
    \/ _get_except(MainThread)
    \/ api_page(MainThread)
    \/ api_next(MainThread)
    \/ api_raised(MainThread)
    \/ web_page(MainThread)
    \/ clock_tick

Spec == Init /\ [][Next]_vars

(***************************************************************************)
(* The concurrent specification: NThreads threads make API calls and       *)
(* scraping fetches through _request_with_rate_limit and call              *)
(* rate_limiter.wait() on one client.                                      *)
(***************************************************************************)
InitThreads ==
    /\ \E r \in RateLimits : \E prior \in PriorCalls : RateLimiterInit(r, prior)
    /\ RequestInit(ThreadRequests)
    /\ ClientInit(0)
    /\ ScrapeIdle
    /\ ToolsIdle

NextThreads ==
    \/ \E t \in Threads : thread_call_request(t)
    \/ \E t \in Threads : thread_call_wait(t)
    \/ \E t \in Threads : request_enter(t)
    \/ \E t \in Threads : wait_enter(t)
    \/ \E t \in Threads : wait_exit(t)
    \/ \E t \in Threads : session_request(t)
    \/ \E t \in Threads : request_success(t)
    \/ \E t \in Threads : request_error(t)
    \/ \E t \in Threads : thread_return(t)

SpecThreads == InitThreads /\ [][NextThreads]_vars
(***************************************************************************)
(* The scraper specification: one script calls scrape_with_cache again and *)
(* again while time passes; the cache file it starts with may be missing,  *)
(* of any age (or stamped in the future), corrupt, and not accessible.     *)
(* steamrev.py's extract_subsection_descs is called in between.            *)
(***************************************************************************)
InitScrape ==
    /\ \E s \in Scrapers : \E f \in CacheFiles : ScrapeInit(s, f)
    /\ WikiIdle
    /\ ToolsIdle

NextScrape ==
    \/ \E ttl \in CacheTTLs : scrape_with_cache(ttl)
    \/ \E event \in PageEvents : scrape_returns(event)
    \/ \E event \in PageEvents : extract_subsection_descs(event)
    \/ scrape_clock_tick

SpecScrape == InitScrape /\ [][NextScrape]_vars

(***************************************************************************)
(* The hero details specification: one scrape_all_hero_details call over   *)
(* any input list, pool size and cache directory.                          *)
(***************************************************************************)
InitHeroes ==
    /\ WikiIdle
    /\ ScrapeIdle
    /\ \E heroes \in HeroLists : \E w \in 1..MaxWorkers :
          \E files \in [Slugs -> UNION {HeroFiles(s) : s \in Slugs}] :
             /\ \A s \in Slugs : files[s] \in HeroFiles(s)
             /\ HeroesInit(heroes, w, files)
    /\ PortalIdle
    /\ BuildIdle
    /\ PatchIdle
    /\ ImportIdle
    /\ LispIdle
    /\ SqlIdle
    /\ ExportIdle
    /\ TowersIdle
    /\ SchemaIdle
    /\ AcqIdle

NextHeroes ==
    \/ \E h \in 1..NHeroes : hero_start(h)
    \/ \E h \in 1..NHeroes : hero_check(h)
    \/ \E h \in 1..NHeroes : \E event \in PageEvents : hero_scrape(h, event)
    \/ \E h \in 1..NHeroes : hero_write(h)
    \/ \E h \in 1..NHeroes : hero_collect(h)
    \/ hero_dataset

SpecHeroes == InitHeroes /\ [][NextHeroes]_vars

(***************************************************************************)
(* The heroes portal specification: the result scrape_heroes_portal builds *)
(* from any list of scraped entries.                                       *)
(***************************************************************************)
InitPortal ==
    /\ WikiIdle
    /\ ScrapeIdle
    /\ HeroesIdle
    /\ \E heroes \in ScrapedLists : PortalInit(heroes)
    /\ BuildIdle
    /\ PatchIdle
    /\ ImportIdle
    /\ LispIdle
    /\ SqlIdle
    /\ ExportIdle
    /\ TowersIdle
    /\ SchemaIdle
    /\ AcqIdle

NextPortal == scrape_heroes_portal

SpecPortal == InitPortal /\ [][NextPortal]_vars

(***************************************************************************)
(* The optimal build specification: resolve_optimal_build for any set of   *)
(* hero_items rows and any constraints.                                    *)
(***************************************************************************)
InitBuild ==
    /\ WikiIdle
    /\ ScrapeIdle
    /\ HeroesIdle
    /\ PortalIdle
    /\ \E ids \in SUBSET ItemIds : \E c \in ConstraintSets : BuildInit(RowsOf(ids, 1), c)
    /\ PatchIdle
    /\ ImportIdle
    /\ LispIdle
    /\ SqlIdle
    /\ ExportIdle
    /\ TowersIdle
    /\ SchemaIdle
    /\ AcqIdle

NextBuild ==
    \/ resolve_optimal_build
    \/ next_build_request

SpecBuild == InitBuild /\ [][NextBuild]_vars

(***************************************************************************)
(* The patch impact specification: calculate_patch_impact for any rows of  *)
(* the two patches.                                                        *)
(***************************************************************************)
InitPatch ==
    /\ WikiIdle
    /\ ScrapeIdle
    /\ HeroesIdle
    /\ PortalIdle
    /\ BuildIdle
    /\ \E base \in StatLists : \E target \in StatLists : \E env \in PatchEnvs :
          PatchInit(base, target, env)
    /\ ImportIdle
    /\ LispIdle
    /\ SqlIdle
    /\ ExportIdle
    /\ TowersIdle
    /\ SchemaIdle
    /\ AcqIdle

NextPatch == calculate_patch_impact

SpecPatch == InitPatch /\ [][NextPatch]_vars

(***************************************************************************)
(* The graph import specification: import runs, one after the other, for   *)
(* any heroes and any fetched timelines, into a graph that starts empty.   *)
(***************************************************************************)
InitImport ==
    /\ WikiIdle
    /\ ScrapeIdle
    /\ HeroesIdle
    /\ PortalIdle
    /\ BuildIdle
    /\ PatchIdle
    /\ ImportInit(MaxSnapshots)
    /\ LispIdle
    /\ SqlIdle
    /\ ExportIdle
    /\ TowersIdle
    /\ SchemaIdle
    /\ AcqIdle

NextImport ==
    \/ \E hero_id \in GraphHeroIds : import_hero_meta_to_neo4j(hero_id)
    \/ \E s \in Snapshots : import_snapshot(s)
    \/ import_done

SpecImport == InitImport /\ [][NextImport]_vars

(***************************************************************************)
(* The strategy classification specification: requests arrive at one       *)
(* process, whose handlers call get_lisp_environment.                      *)
(***************************************************************************)
InitLisp ==
    /\ WikiIdle
    /\ ScrapeIdle
    /\ HeroesIdle
    /\ PortalIdle
    /\ BuildIdle
    /\ PatchIdle
    /\ ImportIdle
    /\ LispInit(MaxLispCalls)
    /\ SqlIdle
    /\ ExportIdle
    /\ TowersIdle
    /\ SchemaIdle
    /\ AcqIdle

NextLisp ==
    \/ \E r \in Requests : classify_request(r)
    \/ \E r \in Requests : match_data_raised(r)
    \/ \E r \in Requests : \E load \in LoadOutcomes : classify_match_strategy(r, load)
    \/ \E r \in Requests : classify_answered(r)

SpecLisp == InitLisp /\ [][NextLisp]_vars

(***************************************************************************)
(* The SQL chain specification: one import of src/sql_chain.py in any      *)
(* environment.                                                            *)
(***************************************************************************)
InitSql ==
    /\ WikiIdle
    /\ ScrapeIdle
    /\ HeroesIdle
    /\ PortalIdle
    /\ BuildIdle
    /\ PatchIdle
    /\ ImportIdle
    /\ LispIdle
    /\ \E env \in SqlEnvs : SqlInit(env)
    /\ ExportIdle
    /\ TowersIdle
    /\ SchemaIdle
    /\ AcqIdle

NextSql ==
    \/ create_engine
    \/ wrap_database
    \/ build_embeddings
    \/ check_api_key
    \/ build_llm
    \/ build_db_chain

SpecSql == InitSql /\ [][NextSql]_vars

(***************************************************************************)
(* The graph export specification: export_to_graph(session, 'dict') on any *)
(* table of matches.                                                       *)
(***************************************************************************)
InitExport ==
    /\ WikiIdle
    /\ ScrapeIdle
    /\ HeroesIdle
    /\ PortalIdle
    /\ BuildIdle
    /\ PatchIdle
    /\ ImportIdle
    /\ LispIdle
    /\ SqlIdle
    /\ \E table \in Tables(MaxDbMatches) : ExportInit(table)
    /\ TowersIdle
    /\ SchemaIdle
    /\ AcqIdle

NextExport ==
    \/ export_to_graph
    \/ export_match
    \/ export_return

SpecExport == InitExport /\ [][NextExport]_vars

(***************************************************************************)
(* The tower status specification: decode_tower_status on a match with any *)
(* radiant status value.                                                   *)
(***************************************************************************)
InitTowers ==
    /\ WikiIdle
    /\ ScrapeIdle
    /\ HeroesIdle
    /\ PortalIdle
    /\ BuildIdle
    /\ PatchIdle
    /\ ImportIdle
    /\ LispIdle
    /\ SqlIdle
    /\ ExportIdle
    /\ \E radiant \in StatusValues, dire \in DireStatusValues : TowersInit(radiant, dire)
    /\ SchemaIdle
    /\ AcqIdle

NextTowers ==
    \E is_radiant \in BOOLEAN : decode_tower_status(is_radiant)

SpecTowers == InitTowers /\ [][NextTowers]_vars

(***************************************************************************)
(* The schema validation specification: validate_type_compatibility on any *)
(* Python and GraphQL schema files.                                        *)
(***************************************************************************)
InitSchema ==
    /\ WikiIdle
    /\ ScrapeIdle
    /\ HeroesIdle
    /\ PortalIdle
    /\ BuildIdle
    /\ PatchIdle
    /\ ImportIdle
    /\ LispIdle
    /\ SqlIdle
    /\ ExportIdle
    /\ TowersIdle
    /\ \E python \in ListsOf(ParsedFiles, MaxPythonPaths),
          graphql \in ListsOf(GraphqlFiles, MaxGraphqlPaths) :
           SchemaInit(python, graphql)
    /\ AcqIdle

NextSchema ==
    validate_type_compatibility

SpecSchema == InitSchema /\ [][NextSchema]_vars

(***************************************************************************)
(* The data acquisition specification: the query and the loop on any table *)
(* of match players.                                                       *)
(***************************************************************************)
InitAcq ==
    /\ WikiIdle
    /\ ScrapeIdle
    /\ HeroesIdle
    /\ PortalIdle
    /\ BuildIdle
    /\ PatchIdle
    /\ ImportIdle
    /\ LispIdle
    /\ SqlIdle
    /\ ExportIdle
    /\ TowersIdle
    /\ SchemaIdle
    /\ \E table \in PlayerTables(MaxPlayerRows) : AcqInit(table)

NextAcq ==
    \/ acq_query
    \/ acq_row
    \/ acq_done

SpecAcq == InitAcq /\ [][NextAcq]_vars

(***************************************************************************)
(* Properties of the wiki crawl client.                                    *)
(***************************************************************************)

\* C1: every failed API call passes through the except handler of _get, which
\* increments api_failure_count; a _get call that ends by raising has raised
\* APIFailureException exactly when the counter has reached 5, and then api_mode
\* is False; and no step of the client sets api_mode back to True.
C1_FailureThreshold ==
    /\ [](pc[MainThread] = "get_raised" =>
            /\ call_increments >= 1
            /\ (exc = "APIFailure") = (api_failure_count >= 5)
            /\ (api_failure_count >= 5 => api_mode = FALSE))
    /\ [][pc[MainThread] = "get_except" => api_failure_count' > api_failure_count]_vars
    /\ [][api_mode = FALSE => api_mode' = FALSE]_vars

\* C1 witness: a _get call has just raised APIFailureException on the fifth failure.
C1_Witness ==
    /\ pc[MainThread] = "get_raised"
    /\ api_failure_count = 5
    /\ exc = "APIFailure"
    /\ api_mode = FALSE

C3_AtMostTwoRequests == call_requests <= 2

\* C4 (the claim as stated): a maxlag response never increments
\* api_failure_count, and the failure of the retry that follows it increments
\* the counter exactly once.
C4_OneIncrementPerFailure ==
    /\ (pc[MainThread] = "get_entry" /\ depth > 1 => call_increments = 0)
    /\ call_increments <= 1

\* C5: a thread inside session.request holds _rate_limit_lock and has completed
\* rate_limiter.wait() in that critical section, so at most one thread at a time
\* is inside session.request.
C5_OneRequestAtATime ==
    /\ \A t \in Threads : pc[t] = "in_request" => rate_limit_lock = t /\ waited[t]
    /\ Cardinality({t \in Threads : pc[t] = "in_request"}) <= 1

\* C5 witness: one thread is inside session.request while another is blocked at
\* the lock.
C5_Witness ==
    \E t, u \in Threads : t # u /\ pc[t] = "in_request" /\ pc[u] = "call_request"

\* C6: base_rate <= current_rate <= max_rate and 0 <= error_count < error_threshold (3).
C6_RateWithinBounds ==
    /\ RLeq(base_rate, current_rate)
    /\ RLeq(current_rate, max_rate)
    /\ error_count >= 0
    /\ error_count < 3

\* C6 witness: an error() call that found a rate whose 1.5-fold exceeds
\* max_rate has been capped at max_rate.
C6_Witness ==
    /\ last_rl_call.op = "error"
    /\ RLess(max_rate, RMul(last_rl_call.rate, <<3, 2>>))
    /\ current_rate = max_rate
    /\ error_count = 0

\* C7: an error() call that is the first or second of three consecutive ones
\* leaves current_rate unchanged; the third multiplies it by 1.5, capped at
\* max_rate, and resets error_count to 0.
C7_ThirdErrorEscalates ==
    [][consecutive_errors' = consecutive_errors + 1 =>
          IF consecutive_errors' % 3 # 0
          THEN current_rate' = current_rate /\ error_count' = error_count + 1
          ELSE /\ current_rate' = RMin(max_rate, RMul(current_rate, <<3, 2>>))
               /\ error_count' = 0]_vars

\* C7 witness: the third consecutive error() has multiplied the rate by 1.5.
C7_Witness ==
    /\ last_rl_call.op = "error"
    /\ consecutive_errors = 3
    /\ error_count = 0
    /\ current_rate = RMul(last_rl_call.rate, <<3, 2>>)
    /\ current_rate # max_rate

\* C8: success() resets error_count to 0; it replaces current_rate by
\* max(base_rate, 0.9 x current_rate) when current_rate > base_rate and leaves it
\* unchanged otherwise, so current_rate stays at or above base_rate.
C8_SuccessRecovers ==
    [][(\E t \in Threads : pc[t] = "in_request" /\ response'[t] = "returned") =>
          /\ error_count' = 0
          /\ current_rate' = IF RLess(base_rate, current_rate)
                             THEN RMax(base_rate, RMul(current_rate, <<9, 10>>))
                             ELSE current_rate
          /\ (current_rate = base_rate => current_rate' = base_rate)
          /\ RLeq(base_rate, current_rate')]_vars

\* C8 witness: success() found a rate above base_rate whose 0.9-fold is below
\* it, and has floored the rate at base_rate.
C8_Witness ==
    /\ last_rl_call.op = "success"
    /\ RLess(base_rate, last_rl_call.rate)
    /\ RLess(RMul(last_rl_call.rate, <<9, 10>>), base_rate)
    /\ current_rate = base_rate

\* C9: _is_cache_valid answers False for a missing file; for an existing file it
\* answers True when cache_expiry <= 0 and otherwise exactly when
\* now - mtime < cache_expiry.
C9_CacheValidity ==
    lookup.done =>
        LET file == cache[lookup.path]
        IN  /\ (~file.exists => lookup.valid = FALSE)
            /\ (file.exists /\ cache_expiry <= 0 => lookup.valid = TRUE)
            /\ (file.exists /\ cache_expiry > 0 =>
                    (lookup.valid = TRUE) = (now - file.mtime < cache_expiry))

\* C9 witness: an entry whose age equals cache_expiry has been found invalid.
C9_Witness ==
    /\ lookup.done
    /\ cache[lookup.path].exists
    /\ cache_expiry > 0
    /\ now - cache[lookup.path].mtime = cache_expiry
    /\ lookup.valid = FALSE

(***************************************************************************)
(* Properties of scrape_with_cache.                                        *)
(***************************************************************************)

\* C10: a call that found an existing parseable cache file returned it without
\* a fetch exactly when now - mtime < cache_ttl, and fetched otherwise; no call
\* both serves the cache and fetches.
C10_ServedIffFresh ==
    last_call.done =>
        /\ (last_call.from_cache => ~last_call.fetched)
        /\ (last_call.file.exists /\ last_call.file.parseable =>
                /\ last_call.from_cache =
                       (last_call.at - last_call.file.mtime < last_call.ttl)
                /\ last_call.fetched = ~last_call.from_cache)

\* C10 witness: a parseable file modified exactly at now - ttl forced a fresh scrape.
C10_Witness ==
    /\ last_call.done
    /\ last_call.file.exists
    /\ last_call.file.parseable
    /\ last_call.ttl > 0
    /\ last_call.at - last_call.file.mtime = last_call.ttl
    /\ last_call.fetched

\* C11 (the claim as stated): no scrape or cache operation ends by raising: every
\* scrape_with_cache call and every extract_subsection_descs call returns a
\* result, and a get_all_pages run does not end with an exception, whatever
\* the fetch did and whatever the state of the cache file.
C11_NeverRaises ==
    /\ last_call.status # "raised"
    /\ steam_result # "raised"
    /\ gen \notin {"raised_api", "raised_web"}

\* C26: api_failure_count counts consecutive failures only.  A step in which
\* _get takes a successful response (maxlag or data) sets it to 0; a cache hit
\* leaves it as it is; it changes otherwise only by 1, in the except handler of
\* a failed _get call; and api_mode is switched off only in such a handler, when
\* the count of failures since the last successful response has reached
\* max_api_failures.
C26_ConsecutiveFailuresOnly ==
    [][\A t \in DOMAIN pc :
        /\ (/\ pc[t] = "request_done" /\ req_kind[t] = "api"
            /\ pc'[t] \in {"get_entry", "get_returned"}) => api_failure_count' = 0
        /\ (pc[t] = "get_entry" /\ pc'[t] = "get_returned")
               => api_failure_count' = api_failure_count
        /\ (pc[t] = "get_except" /\ depth' # depth)
               => api_failure_count' = api_failure_count + 1
        /\ (api_failure_count' # api_failure_count /\ api_failure_count' # 0)
               => /\ \E u \in DOMAIN pc : pc[u] = "get_except"
                  /\ api_failure_count' = api_failure_count + 1
        /\ (api_mode /\ ~api_mode')
               => /\ \E u \in DOMAIN pc : pc[u] = "get_except"
                  /\ api_failure_count' = api_failure_count + 1
                  /\ api_failure_count' >= max_api_failures
    ]_vars

\* C26 witness: a run that had a successful response (it yielded pages) has
\* then switched api_mode off, with 5 failures counted since that response.
C26_Witness ==
    /\ ~api_mode
    /\ api_failure_count = max_api_failures
    /\ Len(yielded) > 0
    /\ fallback

\* C27 (the claim as stated): a listing page that _get fetched and saved is
\* served from the cache while its entry is valid: no API request is issued for
\* a page whose response is in the cache and valid, the first page of a repeated
\* get_all_pages() included.
C27_SavedIsServed ==
    \A t \in DOMAIN pc :
        (pc[t] = "call_request" /\ req_kind[t] = "api" /\ depth = 1)
            => ~\E path \in CachePaths : /\ _is_cache_valid(cache[path])
                                         /\ cache[path].data = params.cont

\* C28 (the claim as stated): one get_all_pages() run yields each page title at
\* most once, also when it falls back to scraping after the API listing has
\* yielded pages.
C28_EachTitleOnce ==
    \A i \in DOMAIN yielded : \A j \in DOMAIN yielded :
        i # j => yielded[i] # yielded[j]

\* C24: scrape_with_cache writes the cache file only when the scrape result has
\* status "success": after a call whose scrape returned an error result the
\* cache file is as it was when the call began, also when the scrape was forced
\* by a file within the TTL that is not valid JSON.
C24_WrittenOnlyOnSuccess ==
    last_call.done =>
        /\ last_call.status = "error" => scrape_file = last_call.file
        /\ scrape_file # last_call.file => last_call.status = "success"

\* C24 witness: a call found a cache file within the TTL that is not valid
\* JSON, scraped, and the scrape returned an error result.
C24_Witness ==
    /\ last_call.done
    /\ last_call.fetched
    /\ last_call.status = "error"
    /\ last_call.file.exists
    /\ last_call.file.readable
    /\ ~last_call.file.parseable
    /\ last_call.at - last_call.file.mtime < last_call.ttl
    /\ scrape_file = last_call.file

(***************************************************************************)
(* Properties of scrape_all_hero_details.                                  *)
(***************************************************************************)

\* C12: at every moment each input hero whose future has been collected has
\* exactly one entry, in all_heroes or in errors, and every other input hero has
\* none; the dataset returned has hero_count + error_count equal to the number
\* of input heroes (error_count read as 0 when the key is absent) and status
\* "success" exactly when hero_count > 0.
C12_EveryHeroOnce ==
    /\ \A h \in DOMAIN task :
          Cardinality({i \in DOMAIN all_heroes : all_heroes[i].of = h})
            + Cardinality({i \in DOMAIN errors : errors[i].hero = h})
          = IF task[h] = "collected" THEN 1 ELSE 0
    /\ \A i \in DOMAIN all_heroes : all_heroes[i].of \in DOMAIN task
    /\ \A i \in DOMAIN errors : errors[i].hero \in DOMAIN task
    /\ dataset # NoDataset =>
          /\ \A h \in DOMAIN task : task[h] = "collected"
          /\ dataset.hero_count = Len(all_heroes)
          /\ dataset.error_count = Len(errors)
          /\ dataset.hero_count + dataset.error_count = Cardinality(DOMAIN task)
          /\ (dataset.status = "success") = (dataset.hero_count > 0)

\* C12 witness: a run over three heroes whose futures completed out of input
\* order has returned a dataset with a scraped hero, and with a hero whose
\* process_hero raised among the errors.
C12_Witness ==
    /\ dataset # NoDataset
    /\ Cardinality(DOMAIN task) = 3
    /\ dataset.hero_count >= 1
    /\ \E i \in DOMAIN errors : errors[i].raised
    /\ \E i, j \in DOMAIN all_heroes : i < j /\ all_heroes[i].of > all_heroes[j].of

\* C29 (the claim as stated): every entry of 'heroes' stems from the URL of the
\* input hero it is recorded for, also when two input hero names share a cache
\* file, under every interleaving of the workers.
C29_OwnDetailsOnly ==
    \A i \in DOMAIN all_heroes : all_heroes[i].hero = all_heroes[i].of

(***************************************************************************)
(* Properties of scrape_heroes_portal.                                     *)
(***************************************************************************)

\* C13: the hero list of the result holds exactly one entry per distinct URL of
\* the scraped entries, each with the name of the last scraped entry of that
\* URL; it is sorted by name; hero_count is the number of distinct URLs; and
\* there is a duplicate warning exactly when the scraped entries outnumber the
\* distinct URLs, its count being the difference.
C13_DedupByUrl ==
    portal_result # NoPortalResult =>
        LET urls == {scraped_heroes[i].url : i \in DOMAIN scraped_heroes}
            last(u) == CHOOSE i \in DOMAIN scraped_heroes :
                          /\ scraped_heroes[i].url = u
                          /\ \A j \in DOMAIN scraped_heroes :
                                scraped_heroes[j].url = u => j <= i
            list == portal_result.heroes
        IN  /\ {list[i].url : i \in DOMAIN list} = urls
            /\ Len(list) = Cardinality(urls)
            /\ \A i \in DOMAIN list : list[i].name = scraped_heroes[last(list[i].url)].name
            /\ \A i, j \in DOMAIN list : i < j => list[i].name <= list[j].name
            /\ portal_result.hero_count = Cardinality(urls)
            /\ (portal_result.warnings # <<>>) = (Len(scraped_heroes) > Cardinality(urls))
            /\ (portal_result.warnings # <<>> =>
                    portal_result.warnings = <<Len(scraped_heroes) - Cardinality(urls)>>)

\* C13 witness: two scraped entries share a URL under different names, a third
\* has another URL; the result keeps the later name and warns of one duplicate.
C13_Witness ==
    /\ portal_result # NoPortalResult
    /\ Len(scraped_heroes) = 3
    /\ scraped_heroes[1].url = scraped_heroes[3].url
    /\ scraped_heroes[1].name # scraped_heroes[3].name
    /\ scraped_heroes[2].url # scraped_heroes[1].url
    /\ portal_result.hero_count = 2
    /\ portal_result.warnings = <<1>>
    /\ \E i \in DOMAIN portal_result.heroes : portal_result.heroes[i] = scraped_heroes[3]

(***************************************************************************)
(* Properties of resolve_optimal_build.                                    *)
(***************************************************************************)

\* C14 (the claim as stated): the build holds at most 6 items, and
\* expected_win_rate is the mean win rate of the items in the build, 0 when the
\* build is empty.
C14_MeanOfBuild ==
    build_result.returned =>
        LET n == Len(build_result.items)
            total == SumWinRate([i \in 1..n |->
                                   [win_rate |-> ItemWinRate(build_result.items[i])]])
        IN  /\ n <= 6
            /\ build_result.expected_win_rate = IF n = 0 THEN <<0, 1>> ELSE Rat(total, n)

\* C23 (the claim as stated): a call answers with a result, for every
\* constraints value, whose items are the up to 6 candidates of highest win
\* rate, in descending order, among the candidates that cost at most maxCost and
\* are not in forbiddenItems; no item of the result is forbidden or costs more
\* than maxCost.
C23_BuildWithinConstraints ==
    build_result # NoBuild =>
        LET allowed == {i \in DOMAIN hero_items :
                           /\ _get_item_cost(hero_items[i].item_id) <= constraints.maxCost
                           /\ hero_items[i].item_id \notin constraints.forbiddenItems}
            build == build_result.items
        IN  /\ build_result.returned
            /\ build_result.raised = "none"
            /\ Len(build) = (IF Cardinality(allowed) < 6 THEN Cardinality(allowed) ELSE 6)
            /\ \A k \in DOMAIN build :
                   \E i \in allowed : hero_items[i].item_id = build[k]
            /\ \A k \in DOMAIN build : \A l \in DOMAIN build :
                   k < l => ItemWinRate(build[k]) >= ItemWinRate(build[l])
            /\ \A i \in allowed :
                   (\A k \in DOMAIN build : build[k] # hero_items[i].item_id)
                       => \A k \in DOMAIN build :
                              ItemWinRate(build[k]) >= hero_items[i].win_rate

(***************************************************************************)
(* Properties of calculate_patch_impact.                                   *)
(***************************************************************************)

\* C15 (the claim as stated): a call that found zero matches for the base patch
\* or for the target patch has returned the neutral report.
C15_NeutralOnZeroMatches ==
    (/\ patch_report # NoReport
     /\ (SumField(base_data, FALSE) = 0 \/ SumField(target_data, FALSE) = 0))
        => patch_report = NeutralReport

(***************************************************************************)
(* Properties of import_hero_meta_to_neo4j.                                *)
(***************************************************************************)

\* C16 (the claim as stated): the graph holds exactly one Hero node for every
\* hero id an import was run for, and at most one Patch node per patch version.
C16_HeroAndPatchUnique ==
    /\ \A h \in heroes_imported : Cardinality(Matching(graph, "Hero", h)) = 1
    /\ \A v \in PatchVersions : Cardinality(Matching(graph, "Patch", v)) <= 1

\* C17 (the claim as stated): for every snapshot imported, the statements of
\* that snapshot have created exactly one PositionMetrics, one ItemBuild and one
\* SkillPriority node, each with one incoming relationship, from the
\* MetaSnapshot node of that snapshot, and exactly one ItemSynergy node, with
\* one incoming relationship, from the ItemBuild node of that snapshot.
C17_OneChildPerEntry ==
    \A ms \in DOMAIN graph.nodes :
        graph.nodes[ms].label = "MetaSnapshot" =>
            LET made(label) == {i \in DOMAIN graph.nodes :
                                   /\ graph.nodes[i].label = label
                                   /\ graph.nodes[i].run = graph.nodes[ms].run
                                   /\ graph.nodes[i].snap = graph.nodes[ms].snap}
                from(n) == {r \in graph.rels : r[3] = n}
            IN  /\ \A label \in {"PositionMetrics", "ItemBuild", "SkillPriority", "ItemSynergy"} :
                      Cardinality(made(label)) = 1
                /\ \A label \in {"PositionMetrics", "ItemBuild", "SkillPriority"} :
                      \A n \in made(label) : \A r \in from(n) : r[2] = ms
                /\ \A n \in made("ItemSynergy") : \A r \in from(n) : r[2] \in made("ItemBuild")

(***************************************************************************)
(* Properties of get_lisp_environment.                                     *)
(***************************************************************************)

\* C18 (the claim as stated): at most one interpreter is created, and every
\* get_lisp_environment call that returned an interpreter returned one into which
\* the rule file has been loaded.
C18_LoadedInterpreter ==
    /\ lisp_created <= 1
    /\ (last_env_call.outcome = "returned" => last_env_call.loaded)

(***************************************************************************)
(* Properties of the initialization of the SQL chain.                      *)
(***************************************************************************)

\* C19 (the claim as stated): when the import has ended with the error of the
\* key check, the embedding model, the LLM client and the SQL chain have not
\* been created and no network connection has been opened.
C19_KeyCheckedFirst ==
    sql_error = "ValueError" =>
        /\ sql_created \cap {"embeddings", "llm", "db_chain"} = {}
        /\ ~network_used

(***************************************************************************)
(* Properties of export_to_graph.                                          *)
(***************************************************************************)

C30_EdgesBetweenNodes ==
    \A i \in DOMAIN export_edges :
        /\ export_edges[i].source \in export_nodes
        /\ export_edges[i].target \in export_nodes

\* C30 witness: the export of a match with a radiant team, a dire team id of 0,
\* a series and a league id of 0 has returned, with its two edges.
C30_Witness ==
    /\ export_pc = "returned"
    /\ Len(db_matches) = 1
    /\ db_matches[1].radiant_team_id = 1
    /\ db_matches[1].dire_team_id = 0
    /\ db_matches[1].series_id = 1
    /\ db_matches[1].league_id = 0
    /\ Len(export_edges) = 2
    /\ Cardinality(export_nodes) = 3

(***************************************************************************)
(* Properties of decode_tower_status.                                      *)
(***************************************************************************)

\* C21: decode_tower_status sets flag k (tier1_bot, tier2_bot, tier3_bot,
\* tier1_mid, tier2_mid, tier3_mid, tier1_top, tier2_top, tier3_top, tier4_1,
\* tier4_2 for k = 0..10) exactly when bit k of the status value is set: 1 gives
\* tier1_bot only, (1<<9)|(1<<10) the two tier-4 flags only, and the bits above
\* 10 change no flag.
C21_FlagIffBit ==
    decoded_side # "none" =>
        LET status == IF decoded_side = "radiant" THEN tower_status_radiant
                      ELSE tower_status_dire
            flags == <<"tier1_bot", "tier2_bot", "tier3_bot", "tier1_mid", "tier2_mid",
                       "tier3_mid", "tier1_top", "tier2_top", "tier3_top", "tier4_1",
                       "tier4_2">>
        IN  /\ DOMAIN towers = {flags[i] : i \in 1..11}
            /\ \A k \in 0..10 : towers[flags[k + 1]] = ((status \div 2 ^ k) % 2 = 1)
            /\ status = 1 => \A k \in 1..10 : ~towers[flags[k + 1]]
            /\ status = 1536 => \A k \in 0..10 : towers[flags[k + 1]] = (k \in {9, 10})
            /\ towers = towers_of(status % 2048)

\* C21 witness: a radiant status with bit 10, bit 0 and a bit above 10 set has
\* been decoded, and a dire status of (1<<9)|(1<<10) can be.
C21_Witness ==
    /\ decoded_side = "radiant"
    /\ tower_status_radiant = 2048 + 1024 + 1
    /\ tower_status_dire = 1536
    /\ towers.tier4_2 /\ towers.tier1_bot /\ ~towers.tier4_1

(***************************************************************************)
(* Properties of validate_type_compatibility.                              *)
(***************************************************************************)

\* C22: validate_type_compatibility returns exactly one WARNING issue without a
\* field_name detail for each native type absent from the wire schema, exactly
\* one WARNING issue with details.field_name equal to the field for each field
\* of a native type that the wire type of the same name lacks, and nothing
\* else, so the number of issues is the number of missing types plus the number
\* of missing fields of shared types.
C22_OneIssuePerGap ==
    validated =>
        LET Last(files, t) ==
                IF \E i \in DOMAIN files : files[i][t].defined
                THEN files[CHOOSE i \in DOMAIN files :
                               /\ files[i][t].defined
                               /\ \A j \in DOMAIN files : files[j][t].defined => j <= i][t]
                ELSE Undefined
            native(t) == Last(python_schemas, t)
            wire(t) == Last(graphql_schemas, t)
            MissingTypes == {t \in TypeNames : native(t).defined /\ ~wire(t).defined}
            MissingFields == {<<t, f>> \in TypeNames \X FieldNames :
                                 /\ native(t).defined /\ wire(t).defined
                                 /\ f \in native(t).fields /\ f \notin wire(t).fields}
            About(t, f) == {i \in DOMAIN issues : issues[i].message[2] = t
                                                  /\ issues[i].message[3] = f}
        IN  /\ \A i \in DOMAIN issues : issues[i].severity = "WARNING"
            /\ \A t \in MissingTypes :
                   /\ Cardinality(About(t, "none")) = 1
                   /\ \A i \in About(t, "none") : "field_name" \notin issues[i].details
            /\ \A p \in MissingFields :
                   /\ Cardinality(About(p[1], p[2])) = 1
                   /\ \A i \in About(p[1], p[2]) : /\ "field_name" \in issues[i].details
                                                   /\ issues[i].field_name = p[2]
            /\ Len(issues) = Cardinality(MissingTypes) + Cardinality(MissingFields)

(***************************************************************************)
(* Properties of the data acquisition stage of the impact script.          *)
(***************************************************************************)

====
